---- MODULE Spec2Model ----
(***************************************************************************)
(* Model of the partner visit/points aggregation engine of Zabava:         *)
(*   zabava_server/lib/partner-data.js  (parsePayload, loadPartnerData)    *)
(*   zabava_frontend/src/hooks/usePartnerData.ts  (sortPartnerSubmissions) *)
(*   the admin dashboard's sortSubmissionsByCreatedAt                      *)
(*                                                                         *)
(* JavaScript values are tagged records; a stored hash or a decoded        *)
(* payload is a function from field names to values, and an absent field   *)
(* reads as undefined.  Library conversions (trim, toLowerCase, Number,    *)
(* JSON.parse, Date parsing) are tables of what the runtime returns on the *)
(* strings the model uses.                                                 *)
(***************************************************************************)
EXTENDS Integers, Sequences, FiniteSets

VARIABLES
  ppRecord,     \* parsePayload: the record it is applied to
  ppResult,     \* parsePayload: what the call produced (Pending before)
  sortInput,    \* sorting: the list handed to the sort
  sortBy,       \* sorting: which of the three sorts ran ("none" before)
  sortOutput,   \* sorting: the list it produced
  store,        \* the key-value store: its sets and its hashes
  run,          \* loadPartnerData: the invocation in progress
  prev,         \* loadPartnerData: an earlier invocation's identifier and result
  EMPTY_METRICS, \* partner-data.js 3: the module-level object, as it is now
  invocations,  \* loadPartnerData: the invocations running side by side
  hook,         \* usePartnerData: the props, state and refs of one mounted hook
  requests,     \* usePartnerData: the fetchData calls made so far, in order
  bonus         \* BonusPage: the user data it holds and what it derives from it

ppVars == <<ppRecord, ppResult>>
sortVars == <<sortInput, sortBy, sortOutput>>
loadVars == <<store, run, prev>>
moduleVars == <<EMPTY_METRICS, invocations>>
frontendVars == <<hook, requests, bonus>>
vars ==
  <<ppRecord, ppResult, sortInput, sortBy, sortOutput, store, run, prev,
    EMPTY_METRICS, invocations, hook, requests, bonus>>

----------------------------------------------------------------------------
(* JavaScript values *)

Undef == [t |-> "undefined"]
Null == [t |-> "null"]
NaN == [t |-> "NaN"]
Str(s) == [t |-> "string", s |-> s]
Num(n) == [t |-> "number", n |-> n]
Bool(b) == [t |-> "boolean", b |-> b]
Obj(m) == [t |-> "object", m |-> m]
EmptyMap == <<>>

\* property read on a plain map: an absent key reads as undefined
Get(m, f) == IF f \in DOMAIN m THEN m[f] ELSE Undef

\* value.f for a non-null value: primitives carry none of the fields read here
Prop(v, f) == IF v.t = "object" THEN Get(v.m, f) ELSE Undef

IsNullish(v) == v.t \in {"undefined", "null"}

\* ToBoolean
Truthy(v) ==
  CASE v.t = "undefined" -> FALSE
    [] v.t = "null" -> FALSE
    [] v.t = "NaN" -> FALSE
    [] v.t = "string" -> v.s # ""
    [] v.t = "number" -> v.n # 0
    [] v.t = "boolean" -> v.b
    [] OTHER -> TRUE

\* a || b
Or(a, b) == IF Truthy(a) THEN a ELSE b

\* a ?? b
Coalesce(a, b) == IF IsNullish(a) THEN b ELSE a

\* { ...a, ...b } on plain maps: b's own keys overwrite a's
Spread(a, b) ==
  [f \in DOMAIN a \cup DOMAIN b |-> IF f \in DOMAIN b THEN b[f] ELSE a[f]]

\* the own enumerable properties a spread copies out of a value
OwnProps(v) ==
  CASE v.t = "object" -> v.m
    [] v.t = "string" /\ v.s = "ab" -> [i \in {"0", "1"} |-> IF i = "0" THEN Str("a") ELSE Str("b")]
    [] OTHER -> EmptyMap

----------------------------------------------------------------------------
(* String and number conversions, on the strings of the model *)

\* String.prototype.trim
Trim(s) ==
  CASE s = " " -> ""
    [] s = " ab" -> "ab"
    [] s = " AB" -> "AB"
    [] s = " Used " -> "Used"
    [] s = " used " -> "used"
    [] OTHER -> s

\* String.prototype.toLowerCase
ToLowerCase(s) ==
  CASE s = "Ab" -> "ab"
    [] s = "AB" -> "ab"
    [] s = " AB" -> " ab"
    [] s = "Used" -> "used"
    [] s = " Used " -> " used "
    [] s = "TRUE" -> "true"
    [] s = "Completed" -> "completed"
    [] s = "Visited" -> "visited"
    [] s = "BonusReward" -> "bonusreward"
    [] s = "BONUSREWARD" -> "bonusreward"
    [] s = "VIP" -> "vip"
    [] s = "Std" -> "std"
    [] OTHER -> s

\* String.prototype.toUpperCase
ToUpperCase(s) ==
  CASE s = "ab" -> "AB"
    [] s = "Ab" -> "AB"
    [] s = " ab" -> " AB"
    [] s = "p1" -> "P1"
    [] s = "p2" -> "P2"
    [] s = "unknown-partner" -> "UNKNOWN-PARTNER"
    [] OTHER -> s

\* Number(string): the numeric strings of the model, NaN for the rest
StringToNumber(s) ==
  CASE s \in {"", " "} -> Num(0)
    [] s = "0" -> Num(0)
    [] s = "1" -> Num(1)
    [] s = "3" -> Num(3)
    [] s = "5" -> Num(5)
    [] s = "10" -> Num(10)
    [] s = "20" -> Num(20)
    [] s = "100" -> Num(100)
    [] s = "200" -> Num(200)
    [] s = "-50" -> Num(-50)
    [] OTHER -> NaN

\* String(number)
NumberToString(n) ==
  CASE n = 0 -> "0"
    [] n = 1 -> "1"
    [] n = 3 -> "3"
    [] n = 5 -> "5"
    [] n = 10 -> "10"
    [] n = 20 -> "20"
    [] n = 100 -> "100"
    [] n = 200 -> "200"
    [] n = -50 -> "-50"
    [] OTHER -> "<number>"

\* String(v)
ToString(v) ==
  CASE v.t = "string" -> v.s
    [] v.t = "number" -> NumberToString(v.n)
    [] v.t = "boolean" -> IF v.b THEN "true" ELSE "false"
    [] v.t = "undefined" -> "undefined"
    [] v.t = "null" -> "null"
    [] v.t = "NaN" -> "NaN"
    [] OTHER -> "[object Object]"

\* Number(v)
ToNumber(v) ==
  CASE v.t = "number" -> v
    [] v.t = "string" -> StringToNumber(v.s)
    [] v.t = "boolean" -> IF v.b THEN Num(1) ELSE Num(0)
    [] v.t = "null" -> Num(0)
    [] OTHER -> NaN

\* Number(v) || 0
NumberOrZero(v) == LET n == ToNumber(v) IN IF Truthy(n) THEN n ELSE Num(0)

\* Boolean(v), as a value
ToBool(v) == Bool(Truthy(v))

\* partner-data.js 16-18
NormalizePartnerId(partnerId) == ToLowerCase(Trim(ToString(Or(partnerId, Str("")))))

----------------------------------------------------------------------------
(* JSON.parse on the texts of the model: the value, or a SyntaxError *)

Returned(v) == [threw |-> FALSE, v |-> v]
Thrown == [threw |-> TRUE]
\* a call that has not ended
Pending == [pending |-> TRUE]

NestedVip == "{\"ticket\":\"VIP\",\"totalPrice\":500}"
NestedTicket == "{\"ticket\":\"VIP\"}"
NestedData == "{\"data\":\"x\",\"category\":\"spa\"}"
OuterDouble == "{\"data\":\"{\\\"ticket\\\":\\\"VIP\\\",\\\"totalPrice\\\":500}\"}"
OuterConflict == "{\"ticket\":\"Std\",\"data\":\"{\\\"ticket\\\":\\\"VIP\\\"}\"}"
OuterBadData == "{\"ticket\":\"Std\",\"data\":\"{oops\"}"
OuterPlain == "{\"ticket\":\"Std\",\"totalPrice\":100}"

JSONParse(s) ==
  CASE s = "{}" -> Returned(Obj(EmptyMap))
    [] s = NestedVip -> Returned(Obj([ticket |-> Str("VIP"), totalPrice |-> Num(500)]))
    [] s = NestedTicket -> Returned(Obj([ticket |-> Str("VIP")]))
    [] s = NestedData -> Returned(Obj([data |-> Str("x"), category |-> Str("spa")]))
    [] s = OuterDouble -> Returned(Obj([data |-> Str(NestedVip)]))
    [] s = OuterConflict -> Returned(Obj([ticket |-> Str("Std"), data |-> Str(NestedTicket)]))
    [] s = OuterBadData -> Returned(Obj([ticket |-> Str("Std"), data |-> Str("{oops")]))
    [] s = OuterPlain -> Returned(Obj([ticket |-> Str("Std"), totalPrice |-> Num(100)]))
    [] s = "null" -> Returned(Null)
    [] s = "5" -> Returned(Num(5))
    [] s = "true" -> Returned(Bool(TRUE))
    [] s = "\"ab\"" -> Returned(Str("ab"))
    [] s = "\"\"" -> Returned(Str(""))
    [] OTHER -> Thrown

----------------------------------------------------------------------------
(* parsePayload *)

\* lines 24-27: the first decode
DecodeOuter(p) == IF p.t = "string" THEN JSONParse(p.s) ELSE Returned(p)

\* lines 29-36: the nested `data` string; reading .data of null is a TypeError
DecodeNested(payload) ==
  IF IsNullish(payload) THEN Thrown
  ELSE LET data == Prop(payload, "data") IN
       IF Truthy(data) /\ data.t = "string"
       THEN LET nested == JSONParse(data.s) IN
            IF nested.threw THEN Returned(payload)
            ELSE Returned(Obj(Spread(OwnProps(payload), OwnProps(nested.v))))
       ELSE Returned(payload)

RawPayload(p) == Obj([rawPayload |-> p])

\* the function without its outer catch: what escapes if nothing recovers
ParsePayloadUncaught(record) ==
  LET p == Get(record, "payload") IN
  IF ~Truthy(p) THEN Returned(Obj(EmptyMap))
  ELSE LET outer == DecodeOuter(p) IN
       IF outer.threw THEN Thrown ELSE DecodeNested(outer.v)

ParsePayload(record) ==
  LET p == Get(record, "payload") IN
  IF ~Truthy(p) THEN Returned(Obj(EmptyMap))
  ELSE LET outer == DecodeOuter(p) IN
       IF outer.threw THEN Returned(RawPayload(p))
       ELSE LET inner == DecodeNested(outer.v) IN
            IF inner.threw THEN Returned(RawPayload(p)) ELSE inner

----------------------------------------------------------------------------
(* loadPartnerData: keys *)

\* store keys are the segments of the key string between colons
VisitSetKey(id) == <<"partner", "visits", id>>
PartnerSetKey(id) == <<"partner", id>>
LegacyRecordKey(email) == <<"qr", "email", email>>
\* a key string as a value of a visit
KeyString(key) == [t |-> "string", key |-> key]

\* append to a Set kept in insertion order
SetAdd(seq, x) == IF \E i \in DOMAIN seq : seq[i] = x THEN seq ELSE Append(seq, x)

RECURSIVE SetAddAll(_, _)
SetAddAll(seq, xs) ==
  IF xs = <<>> THEN seq ELSE SetAddAll(SetAdd(seq, Head(xs)), Tail(xs))

\* partner-data.js 60-65: addVisitKeyVariant
AddVisitKeyVariant(keys, value) ==
  IF ~Truthy(value) THEN keys
  ELSE LET trimmed == Trim(ToString(value)) IN
       IF trimmed = "" THEN keys ELSE SetAdd(keys, VisitSetKey(trimmed))

\* partner-data.js 59-75: the visit-set keys probed for a partner identifier
VisitSetKeys(partnerId) ==
  LET normalizedId == NormalizePartnerId(partnerId)
      k1 == AddVisitKeyVariant(<<>>, partnerId)
      k2 == AddVisitKeyVariant(k1, Str(normalizedId))
      k3 == IF Truthy(partnerId)
            THEN AddVisitKeyVariant(
                   AddVisitKeyVariant(k2, Str(ToLowerCase(ToString(partnerId)))),
                   Str(ToUpperCase(ToString(partnerId))))
            ELSE k2
  IN IF normalizedId # ""
     THEN AddVisitKeyVariant(k3, Str(ToUpperCase(normalizedId)))
     ELSE k3

\* partner-data.js 270-276: the legacy email-set keys
PartnerSetKeys(partnerId) ==
  LET normalizedId == NormalizePartnerId(partnerId)
      k1 == IF normalizedId # "" THEN <<PartnerSetKey(normalizedId)>> ELSE <<>>
  IN IF Truthy(partnerId) /\ partnerId # Str(normalizedId)
     THEN SetAdd(k1, PartnerSetKey(ToString(partnerId)))
     ELSE k1

\* partner-data.js 84-88: a member that is a non-empty string starting with "qr:"
IsVisitMember(member) == Len(member) >= 2 /\ member[1] = "qr"

\* partner-data.js 133: /^qr:([^:]+):([^:]+):(.+)$/ on the key's segments
\* (the member keys of the model have at most four segments)
VisitMatch(visitKey) ==
  /\ Len(visitKey) = 4
  /\ visitKey[1] = "qr"
  /\ visitKey[2] # "" /\ visitKey[3] # "" /\ visitKey[4] # ""

VisitEmailFromKey(visitKey) == IF VisitMatch(visitKey) THEN visitKey[2] ELSE ""
VisitPartnerFromKey(visitKey) == IF VisitMatch(visitKey) THEN visitKey[3] ELSE ""
VisitIdFromKey(visitKey) == IF VisitMatch(visitKey) THEN Str(visitKey[4]) ELSE Null

----------------------------------------------------------------------------
(* loadPartnerData: one visit from one record *)

\* partner-data.js 98-106
truthyStatuses == {"true", "used", "redeemed", "completed", "yes", "awarded", "1"}

\* partner-data.js 108-119
visitedStatuses ==
  {"true", "visited", "completed", "redeemed", "checkedin", "checked-in",
   "checked_in", "approved", "yes", "1"}

\* the candidates compared as they are stored, neither trimmed nor lower-cased
StatusStringsAsStored(values) == {ToString(v) : v \in {w \in values : ~IsNullish(w)}}

\* [..].filter(not null or undefined).map(String(value).trim().toLowerCase())
StatusStrings(values) ==
  {ToLowerCase(Trim(ToString(v))) : v \in {w \in values : ~IsNullish(w)}}

\* record.createdAt || payload.createdAt || record.updatedAt || ... || null
CreatedAtOf(record, payload) ==
  Or(Get(record, "createdAt"), Or(Prop(payload, "createdAt"),
  Or(Get(record, "updatedAt"), Or(Prop(payload, "updatedAt"),
  Or(Get(record, "visitedAt"), Or(Prop(payload, "visitedAt"), Null))))))

\* partner-data.js 216-227
CanonicalPartnerId(record, visitKey, partnerId, normalizedId) ==
  LET canonical ==
        Or(Str(NormalizePartnerId(Get(record, "partnerId"))),
        Or(Str(NormalizePartnerId(Str(VisitPartnerFromKey(visitKey)))),
        Or(Str(normalizedId), Str(NormalizePartnerId(partnerId)))))
  IN IF Truthy(canonical) THEN canonical
     ELSE Or(Get(record, "partnerId"),
          Or(Str(VisitPartnerFromKey(visitKey)),
             IF partnerId.t = "string" THEN partnerId
             ELSE Str(ToString(Or(partnerId, Str(""))))))

\* partner-data.js 171-262: the fields the visit-set path derives for a visit
VisitFields(record, payload, visitKey, partnerId, normalizedId) ==
  LET totalPrice ==
        NumberOrZero(Coalesce(Prop(payload, "totalPrice"), Coalesce(Prop(payload, "price"),
                     Coalesce(Get(record, "totalPrice"), Coalesce(Get(record, "price"), Num(0))))))
      estimatedPointsValue ==
        NumberOrZero(Coalesce(Prop(payload, "estimatedPoints"), Coalesce(Prop(payload, "points"),
                     Coalesce(Get(record, "estimatedPoints"), Num(0)))))
      pointsAwarded ==
        NumberOrZero(Coalesce(Get(record, "pointsAwarded"),
                     Coalesce(Prop(payload, "pointsAwarded"), Num(0))))
      statusCandidates ==
        StatusStrings({Get(record, "used"), Prop(payload, "used"),
                       Get(record, "status"), Prop(payload, "status")})
      used == statusCandidates \cap truthyStatuses # {}
      visitedValues ==
        StatusStrings({Get(record, "visited"), Prop(payload, "visited"),
                       Get(record, "status"), Prop(payload, "status")})
      visited ==
        \/ visitedValues \cap visitedStatuses # {}
        \/ Truthy(Get(record, "visitedAt"))
        \/ Truthy(Prop(payload, "visitedAt"))
      email ==
        Or(Get(record, "email"), Or(Prop(payload, "email"),
        Or(Str(VisitEmailFromKey(visitKey)), Or(Get(record, "normalizedEmail"), Str("")))))
  IN   [partnerId |-> CanonicalPartnerId(record, visitKey, partnerId, normalizedId),
        visitId |-> Or(Get(record, "visitId"), Or(Prop(payload, "visitId"), VisitIdFromKey(visitKey))),
        qrKey |-> KeyString(visitKey),
        email |-> email,
        used |-> Bool(used),
        status |-> Or(Get(record, "status"), Or(Prop(payload, "status"), Null)),
        createdAt |-> CreatedAtOf(record, payload),
        updatedAt |-> Or(Get(record, "updatedAt"), Or(Prop(payload, "updatedAt"), Null)),
        scannedAt |-> Or(Get(record, "scannedAt"), Or(Prop(payload, "scannedAt"), Null)),
        totalPrice |-> totalPrice,
        estimatedPoints |-> Or(pointsAwarded, estimatedPointsValue),
        pointsAwarded |-> pointsAwarded,
        visited |-> Bool(visited),
        visitedAt |-> Or(Get(record, "visitedAt"), Or(Prop(payload, "visitedAt"), Null)),
        originalPayload |-> payload]

\* partner-data.js 246-263: the visit built on the visit-set path, the payload
\* spread first and the derived fields written over it
VisitSubmission(record, payload, visitKey, partnerId, normalizedId) ==
  Spread(OwnProps(payload), VisitFields(record, payload, visitKey, partnerId, normalizedId))

\* partner-data.js 310-370: the fields the legacy path derives for a visit
LegacyFields(record, payload, partnerId, normalizedId) ==
  LET totalPrice ==
        NumberOrZero(Or(Prop(payload, "totalPrice"), Or(Get(record, "totalPrice"), Num(0))))
      estimatedPoints ==
        NumberOrZero(Or(Prop(payload, "estimatedPoints"), Or(Get(record, "estimatedPoints"), Num(0))))
      pointsAwarded ==
        NumberOrZero(Or(Get(record, "pointsAwarded"), Or(Prop(payload, "pointsAwarded"), Num(0))))
      statusCandidates ==
        StatusStrings({Get(record, "used"), Prop(payload, "used"),
                       Get(record, "status"), Prop(payload, "status")})
      used == statusCandidates \cap truthyStatuses # {}
      visitedValues ==
        StatusStrings({Get(record, "visited"), Prop(payload, "visited"),
                       Get(record, "status"), Prop(payload, "status")})
      visited ==
        \/ visitedValues \cap visitedStatuses # {}
        \/ ToLowerCase(ToString(Or(Get(record, "visited"), Str("")))) = "true"
        \/ Truthy(Get(record, "visitedAt"))
        \/ Truthy(Prop(payload, "visitedAt"))
      canonicalPartnerId ==
        Or(Str(normalizedId), Str(Trim(ToString(Or(partnerId, Str(""))))))
  IN   [partnerId |-> canonicalPartnerId,
        email |-> Get(record, "email"),
        used |-> Bool(used),
        createdAt |-> CreatedAtOf(record, payload),
        scannedAt |-> Or(Get(record, "scannedAt"), Or(Prop(payload, "scannedAt"), Null)),
        totalPrice |-> totalPrice,
        estimatedPoints |-> Or(pointsAwarded, estimatedPoints),
        pointsAwarded |-> pointsAwarded,
        visited |-> Bool(visited),
        visitedAt |-> Or(Get(record, "visitedAt"), Or(Prop(payload, "visitedAt"), Null)),
        originalPayload |-> payload]

\* partner-data.js 358-371: the visit built on the legacy path, the payload
\* spread first and the derived fields written over it
LegacySubmission(record, payload, partnerId, normalizedId) ==
  Spread(OwnProps(payload), LegacyFields(record, payload, partnerId, normalizedId))

----------------------------------------------------------------------------
(* Sorting by createdAt *)

\* Date parsing on the strings of the model, in days since the epoch
DateParse(s) ==
  CASE s = "2024-01-01" -> Num(19723)
    [] s = "2024-06-01" -> Num(19875)
    [] OTHER -> NaN

\* new Date(v).getTime()
DateGetTime(v) ==
  CASE v.t = "number" -> v
    [] v.t = "string" -> DateParse(v.s)
    [] v.t = "null" -> Num(0)
    [] OTHER -> NaN

\* x - y on numbers
Minus(x, y) == IF x.t = "NaN" \/ y.t = "NaN" THEN NaN ELSE Num(x.n - y.n)

\* partner-data.js 378-382: the comparator of submissions.sort
LedgerCompare(a, b) ==
  LET aTime == DateGetTime(Or(Get(a, "createdAt"), Num(0)))
      bTime == DateGetTime(Or(Get(b, "createdAt"), Num(0)))
  IN Minus(bTime, aTime)

\* usePartnerData.ts 19-25 and the admin dashboard's getSubmissionTimestamp
GetTimestamp(value) ==
  IF ~Truthy(value) THEN Num(0)
  ELSE LET time == DateGetTime(value) IN IF time.t = "NaN" THEN Num(0) ELSE time

\* usePartnerData.ts 33-35: (a, b) => getTimestamp(b?.createdAt ?? null) - ...
HookCompare(a, b) ==
  Minus(GetTimestamp(Coalesce(Get(b, "createdAt"), Null)),
        GetTimestamp(Coalesce(Get(a, "createdAt"), Null)))

\* the admin dashboard's comparator
AdminCompare(a, b) ==
  Minus(GetTimestamp(Get(b, "createdAt")), GetTimestamp(Get(a, "createdAt")))

\* how Array.prototype.sort reads a comparator's result: NaN counts as +0
Sign(c) == IF c.t = "NaN" THEN 0 ELSE IF c.n < 0 THEN -1 ELSE IF c.n > 0 THEN 1 ELSE 0

IndexOrders(n) == {q \in [1..n -> 1..n] : \A i, j \in 1..n : q[i] = q[j] => i = j}

\* BonusPage.tsx 440-442: (a, b) => b.totalPoints - a.totalPoints
StatsCompare(a, b) == Minus(Get(b, "totalPoints"), Get(a, "totalPoints"))

\* the comparator each of the sorts passes to Array.prototype.sort
Compare(by, a, b) ==
  CASE by = "loadPartnerData" -> LedgerCompare(a, b)
    [] by = "sortPartnerSubmissions" -> HookCompare(a, b)
    [] by = "derivedPartnerStats" -> StatsCompare(a, b)
    [] OTHER -> AdminCompare(a, b)

\* ECMA-262: a comparator is consistent on the elements being sorted
Consistent(list, by) ==
  LET S(i, j) == Sign(Compare(by, list[i], list[j])) IN
  \A i, j, k \in DOMAIN list :
    /\ S(i, i) = 0
    /\ (S(i, j) = 0 => S(j, i) = 0)
    /\ (S(i, j) = 0 /\ S(j, k) = 0 => S(i, k) = 0)
    /\ (S(i, j) < 0 /\ S(j, k) < 0 => S(i, k) < 0)
    /\ (S(i, j) > 0 /\ S(j, k) > 0 => S(i, k) > 0)

\* q lists the input positions in sorted order, ties in input order
StableOrder(list, q, by) ==
  \A i, j \in DOMAIN list :
    i < j => \/ Sign(Compare(by, list[q[i]], list[q[j]])) < 0
             \/ Sign(Compare(by, list[q[i]], list[q[j]])) = 0 /\ q[i] < q[j]

\* Array.prototype.sort: the stable order under a consistent comparator; under an
\* inconsistent one the order is implementation-defined, so any permutation
ArraySort(list, by) ==
  LET n == Len(list)
      orders == IF Consistent(list, by)
                THEN {q \in IndexOrders(n) : StableOrder(list, q, by)}
                ELSE IndexOrders(n)
  IN {[i \in 1..n |-> list[q[i]]] : q \in orders}

Arr(a) == [t |-> "array", a |-> a]

----------------------------------------------------------------------------
(* loadPartnerData: metrics and the returned object *)

\* x + y on numbers
Plus(x, y) == IF x.t = "NaN" \/ y.t = "NaN" THEN NaN ELSE Num(x.n + y.n)

RECURSIVE SumSeq(_)
SumSeq(numbers) ==
  IF numbers = <<>> THEN Num(0) ELSE Plus(Head(numbers), SumSeq(Tail(numbers)))

\* Math.trunc in the place of Math.round
TruncatedAverage(total, count) ==
  IF total.t = "NaN" THEN NaN
  ELSE Num(IF total.n >= 0 THEN total.n \div count ELSE -((-total.n) \div count))

\* Math.round(total / count) for count > 0: halves round up
RoundedAverage(total, count) ==
  IF total.t = "NaN" THEN NaN ELSE Num((2 * total.n + count) \div (2 * count))

\* partner-data.js 3-14: the object literal EMPTY_METRICS is bound to
EmptyMetricsLiteral ==
  [count |-> Num(0), used |-> Num(0), unused |-> Num(0), visited |-> Num(0),
   notVisited |-> Num(0), revenue |-> Num(0), points |-> Num(0),
   bonusRedemptions |-> Num(0), averageRevenue |-> Num(0), averagePoints |-> Num(0)]

\* partner-data.js 391
SubmissionRevenue(submission) == ToNumber(Or(Get(submission, "totalPrice"), Num(0)))

\* the branches of 392-394 exchanged
SubmissionPointsSwapped(submission) ==
  IF Truthy(Get(submission, "pointsAwarded"))
  THEN ToNumber(Or(Get(submission, "estimatedPoints"), Num(0)))
  ELSE ToNumber(Or(Get(submission, "pointsAwarded"), Num(0)))

\* partner-data.js 392-394
SubmissionPoints(submission) ==
  IF Truthy(Get(submission, "pointsAwarded"))
  THEN ToNumber(Or(Get(submission, "pointsAwarded"), Num(0)))
  ELSE ToNumber(Or(Get(submission, "estimatedPoints"), Num(0)))

\* partner-data.js 396-399
IsBonusRedemption(submission) ==
  LET ticketType == Or(Get(submission, "ticket"), Or(Get(submission, "ticketType"), Str("")))
  IN ToLowerCase(ToString(ticketType)) = "bonusreward"

IsUsed(submission) == Truthy(Get(submission, "used"))
IsVisited(submission) == Truthy(Get(submission, "visited"))

\* the operands of 427 and 429 exchanged
RemainingReversed(count, flagged) == flagged - count

\* partner-data.js 427, 429: count - used, count - visitedCount
Remaining(count, flagged) == count - flagged

\* the ledger counted by its distinct emails
DistinctEmails(submissions) ==
  Cardinality({Get(submissions[i], "email") : i \in DOMAIN submissions})

\* partner-data.js 408: submissions.length
LedgerCount(submissions) == Len(submissions)

\* partner-data.js 384-408, 424-435
ComputeMetrics(submissions) ==
  LET revenue == SumSeq([i \in DOMAIN submissions |-> SubmissionRevenue(submissions[i])])
      points == SumSeq([i \in DOMAIN submissions |-> SubmissionPoints(submissions[i])])
      used == Cardinality({i \in DOMAIN submissions : IsUsed(submissions[i])})
      visitedCount == Cardinality({i \in DOMAIN submissions : IsVisited(submissions[i])})
      bonusRedemptions ==
        Cardinality({i \in DOMAIN submissions : IsBonusRedemption(submissions[i])})
      count == LedgerCount(submissions)
  IN [count |-> Num(count),
      used |-> Num(used),
      unused |-> Num(Remaining(count, used)),
      visited |-> Num(visitedCount),
      notVisited |-> Num(Remaining(count, visitedCount)),
      revenue |-> revenue,
      points |-> points,
      bonusRedemptions |-> Num(bonusRedemptions),
      averageRevenue |-> IF count # 0 THEN RoundedAverage(revenue, count) ELSE Num(0),
      averagePoints |-> IF count # 0 THEN RoundedAverage(points, count) ELSE Num(0)]

\* total / count as the dashboard shows it, unrounded
Quotient(total, count) ==
  IF total.t = "NaN" THEN NaN
  ELSE IF total.n % count = 0 THEN Num(total.n \div count)
  ELSE [t |-> "number", numerator |-> total.n, denominator |-> count]

\* PartnerDashboard.tsx 192-217: the metrics the partner dashboard derives from
\* the submissions it holds
DashboardMetrics(submissions) ==
  LET count == Len(submissions)
      used == Cardinality({i \in DOMAIN submissions : Truthy(Get(submissions[i], "used"))})
      visited == Cardinality({i \in DOMAIN submissions : Truthy(Get(submissions[i], "visited"))})
      revenue == SumSeq([i \in DOMAIN submissions |->
                           ToNumber(Or(Get(submissions[i], "totalPrice"), Num(0)))])
      points == SumSeq([i \in DOMAIN submissions |->
                          ToNumber(Or(Get(submissions[i], "estimatedPoints"), Num(0)))])
  IN [count |-> Num(count),
      used |-> Num(used),
      unused |-> Num(count - used),
      visited |-> Num(visited),
      notVisited |-> Num(count - visited),
      revenue |-> revenue,
      points |-> points,
      averageRevenue |-> IF count # 0 THEN Quotient(revenue, count) ELSE Num(0),
      averagePoints |-> IF count # 0 THEN Quotient(points, count) ELSE Num(0)]

\* partner-data.js 412-418: the label one visit offers
SubmissionLabel(submission) ==
  LET original == Get(submission, "originalPayload") IN
  Or(Get(submission, "partnerName"), Or(Get(submission, "attractionName"),
  Or(Prop(original, "partnerName"), Or(Prop(original, "attractionName"),
  Or(Prop(original, "partnerLabel"), Null)))))

\* partner-data.js 409-422: the first visit, in ledger order, that offers a label
RECURSIVE PartnerLabel(_)
PartnerLabel(submissions) ==
  IF submissions = <<>> THEN Null
  ELSE LET label == SubmissionLabel(Head(submissions)) IN
       IF Truthy(label) THEN label ELSE PartnerLabel(Tail(submissions))

\* the empty result with a metrics object that lacks the two averages
EmptyResultWithoutAverages(partnerId) ==
  [partnerId |-> partnerId, submissions |-> <<>>,
   metrics |-> [f \in DOMAIN EmptyMetricsLiteral \ {"averageRevenue", "averagePoints"} |->
                  Num(0)],
   partnerLabel |-> Null]

\* partner-data.js 49-54 and 297-302: metrics is { ...EMPTY_METRICS }, the
\* fields the module-level object has at the time of the return
EmptyResult(partnerId) ==
  [partnerId |-> partnerId, submissions |-> <<>>,
   metrics |-> Spread(EmptyMap, EMPTY_METRICS), partnerLabel |-> Null]

\* partner-data.js 437-442
LedgerResult(partnerId, submissions) ==
  [partnerId |-> partnerId, submissions |-> submissions,
   metrics |-> ComputeMetrics(submissions), partnerLabel |-> PartnerLabel(submissions)]

----------------------------------------------------------------------------
(* loadPartnerData: the store reads *)

\* kv.smembers(key): the members, [] for a key that does not exist; throws when
\* the read fails
Smembers(st, key, ok) ==
  IF ~ok THEN Thrown
  ELSE Returned(IF key \in DOMAIN st.sets THEN st.sets[key] ELSE <<>>)

\* kv.hgetall(key): the hash, null for a key that does not exist; throws when the
\* read fails
Hgetall(st, key, ok) ==
  IF ~ok THEN Thrown
  ELSE Returned(IF key \in DOMAIN st.hashes THEN Obj(st.hashes[key]) ELSE Null)

\* !record || Object.keys(record).length === 0
IsEmptyRecord(record) == ~Truthy(record) \/ DOMAIN OwnProps(record) = {}

\* the record of one store read: the call, what it was made for (role: visitSet,
\* primary, merge, emailSet, legacy), its key, the member key or email it
\* belongs to, and whether it succeeded
ReadOf(op, role, key, member, ok) ==
  [op |-> op, role |-> role, key |-> key, member |-> member, ok |-> ok]

\* a store whose reads evict the hashes they touch
StoreAfterEviction(st, reads) == IF reads = <<>> THEN st ELSE [st EXCEPT !.hashes = <<>>]

\* the store after the kv calls an invocation has made so far: smembers and
\* hgetall (81, 124, 143, 153, 281, 307) are its only calls, and neither writes
StoreAfter(st, reads) == st

\* the order of the spread at line 155 exchanged
MergeLegacyReversed(legacyRecord, record) == Spread(record, legacyRecord)

\* partner-data.js 155: record = { ...legacyRecord, ...record }
MergeLegacy(legacyRecord, record) == Spread(legacyRecord, record)

----------------------------------------------------------------------------
(* loadPartnerData: one invocation, one step per await *)

NotRead == [notRead |-> TRUE]

\* { ...source } with the source object returned in place of a copy
SameObject(source) == source

\* which object { ...source } evaluates to: a new one, whatever the source
SpreadObject(source) == "fresh"

IdleRun ==
  [pc |-> "idle", partnerId |-> Undef, up |-> TRUE, budget |-> 0, todo |-> <<>>,
   visitRecordKeys |-> <<>>, submissions |-> <<>>, sources |-> <<>>,
   reads |-> <<>>, result |-> Pending, metricsObject |-> "none"]

NormalizedId(r) == NormalizePartnerId(r.partnerId)

FailedReads(r) == Cardinality({i \in DOMAIN r.reads : ~r.reads[i].ok})

\* the outcomes n further reads of this r can have: none succeeds while the
\* store is unreachable, and otherwise at most `budget` reads of the r fail
ReadOutcomes(r, n) ==
  {oks \in [1..n -> BOOLEAN] :
     IF r.up
     THEN FailedReads(r) + Cardinality({i \in 1..n : ~oks[i]}) <= r.budget
     ELSE \A i \in 1..n : ~oks[i]}

\* partner-data.js 378-443: sort, aggregate, return
Finish(r) ==
  {[r EXCEPT !.pc = "done", !.todo = <<>>, !.submissions = sorted,
               !.result = Returned(LedgerResult(r.partnerId, sorted)),
               !.metricsObject = "fresh"]
     : sorted \in ArraySort(r.submissions, "loadPartnerData")}

\* partner-data.js 269-288: the legacy path begins
ToEmailSets(r) ==
  [r EXCEPT !.pc = "emailSets", !.todo = PartnerSetKeys(r.partnerId)]

\* partner-data.js 131, 269: after the visit sets have been read
AfterVisitSets(r) ==
  IF r.visitRecordKeys # <<>>
  THEN [r EXCEPT !.pc = "visitRecords", !.todo = r.visitRecordKeys]
  ELSE ToEmailSets(r)

\* partner-data.js 46-75: the call, up to its first read
StartRun(partnerId, up, budget) ==
  LET r == [IdleRun EXCEPT !.partnerId = partnerId, !.up = up, !.budget = budget] IN
  IF NormalizePartnerId(partnerId) = "" /\ ~Truthy(partnerId)
  THEN [r EXCEPT !.pc = "done", !.result = Returned(EmptyResult(partnerId)),
                 !.metricsObject = SpreadObject("EMPTY_METRICS")]
  ELSE LET keys == VisitSetKeys(partnerId) IN
       IF keys # <<>>
       THEN [r EXCEPT !.pc = "visitSets", !.todo = keys]
       ELSE AfterVisitSets(r)

\* partner-data.js 79-96: one visit set is read
ReadVisitSet(r, st, ok) ==
  LET visitSetKey == Head(r.todo)
      members == Smembers(st, visitSetKey, ok)
      found == IF members.threw THEN <<>> ELSE SelectSeq(members.v, IsVisitMember)
      next == [r EXCEPT !.todo = Tail(r.todo),
                          !.visitRecordKeys = SetAddAll(r.visitRecordKeys, found),
                          !.reads = Append(r.reads,
                                     ReadOf("smembers", "visitSet", visitSetKey, <<>>, ok))]
  IN IF next.todo # <<>> THEN next ELSE AfterVisitSets(next)

\* the same without the catch at 157-162: a failed legacy read costs the record
LoadedRecordUnguarded(primary, legacy, hasEmail) ==
  LET record == IF primary.threw THEN Null ELSE primary.v IN
  IF hasEmail /\ legacy.threw THEN Null
  ELSE IF IsEmptyRecord(record)
  THEN IF hasEmail THEN legacy.v ELSE record
  ELSE IF hasEmail /\ Truthy(legacy.v) /\ DOMAIN OwnProps(legacy.v) # {}
       THEN Obj(MergeLegacy(OwnProps(legacy.v), OwnProps(record)))
       ELSE record

\* partner-data.js 138-163: the record of one member key, with its legacy record
\* as fallback or merged underneath
LoadedRecord(primary, legacy, hasEmail) ==
  LET record == IF primary.threw THEN Null ELSE primary.v IN
  IF IsEmptyRecord(record)
  THEN IF hasEmail /\ ~legacy.threw THEN legacy.v ELSE record
  ELSE IF hasEmail /\ ~legacy.threw /\ Truthy(legacy.v) /\ DOMAIN OwnProps(legacy.v) # {}
       THEN Obj(MergeLegacy(OwnProps(legacy.v), OwnProps(record)))
       ELSE record

\* partner-data.js 132-266: one member key is loaded; after the last one the
\* function goes on to the legacy path or to its end
LoadVisitRecord(r, st, oks) ==
  LET visitKey == Head(r.todo)
      email == VisitEmailFromKey(visitKey)
      hasEmail == email # ""
      primary == Hgetall(st, visitKey, oks[1])
      legacy == IF hasEmail THEN Hgetall(st, LegacyRecordKey(email), oks[2]) ELSE Thrown
      record == LoadedRecord(primary, legacy, hasEmail)
      reads == IF hasEmail
               THEN <<ReadOf("hgetall", "primary", visitKey, visitKey, oks[1]),
                      ReadOf("hgetall", "merge", LegacyRecordKey(email), visitKey, oks[2])>>
               ELSE <<ReadOf("hgetall", "primary", visitKey, visitKey, oks[1])>>
      read == [r EXCEPT !.todo = Tail(r.todo), !.reads = r.reads \o reads]
      payload == ParsePayload(OwnProps(record))
      submission == VisitSubmission(OwnProps(record), payload.v, visitKey,
                                    r.partnerId, NormalizedId(r))
      source == [path |-> "visits", key |-> visitKey,
                 primary |-> IF primary.threw THEN NotRead ELSE primary.v,
                 legacy |-> IF hasEmail /\ ~legacy.threw THEN legacy.v ELSE NotRead,
                 record |-> OwnProps(record), payload |-> payload.v,
                 visit |-> submission]
      next == IF IsEmptyRecord(record) THEN read
              ELSE [read EXCEPT
                      !.submissions = Append(r.submissions, submission),
                      !.sources = Append(r.sources, source)]
  IN IF ~IsEmptyRecord(record) /\ payload.threw
     THEN {[read EXCEPT !.pc = "done", !.todo = <<>>, !.result = Thrown]}
     ELSE IF next.todo # <<>> THEN {next}
     ELSE IF next.submissions = <<>> THEN {ToEmailSets(next)}
     ELSE Finish(next)

\* Array.from(new Set(emailSets.flat().filter(string and non-empty)))
RECURSIVE Flatten(_)
Flatten(lists) == IF lists = <<>> THEN <<>> ELSE Head(lists) \o Flatten(Tail(lists))

IsEmail(value) == value # ""

\* partner-data.js 278-303: the email sets are read together
ReadEmailSets(r, st, oks) ==
  LET keys == r.todo
      emailSets == [i \in DOMAIN keys |->
                      LET set == Smembers(st, keys[i], oks[i]) IN
                      IF set.threw THEN <<>> ELSE set.v]
      emails == SetAddAll(<<>>, SelectSeq(Flatten(emailSets), IsEmail))
      read == [r EXCEPT !.reads = r.reads \o
                 [i \in DOMAIN keys |->
                    ReadOf("smembers", "emailSet", keys[i], <<>>, oks[i])]]
  IN IF emails = <<>>
     THEN [read EXCEPT !.pc = "done", !.todo = <<>>,
                       !.result = Returned(EmptyResult(r.partnerId)),
                       !.metricsObject = SpreadObject("EMPTY_METRICS")]
     ELSE [read EXCEPT !.pc = "legacyRecords", !.todo = emails]

\* partner-data.js 305-375: one legacy record is loaded; after the last one the
\* function goes on to its end
LoadLegacyRecord(r, st, ok) ==
  LET email == Head(r.todo)
      fetched == Hgetall(st, LegacyRecordKey(email), ok)
      read == [r EXCEPT !.todo = Tail(r.todo),
                 !.reads = Append(r.reads,
                            ReadOf("hgetall", "legacy", LegacyRecordKey(email), <<email>>, ok))]
      skip == \/ fetched.threw
              \/ ~Truthy(fetched.v)
              \/ ~Truthy(Prop(fetched.v, "email"))
      payload == ParsePayload(OwnProps(fetched.v))
      submission == LegacySubmission(OwnProps(fetched.v), payload.v,
                                     r.partnerId, NormalizedId(r))
      source == [path |-> "legacy", key |-> LegacyRecordKey(email),
                 primary |-> NotRead, legacy |-> fetched.v,
                 record |-> OwnProps(fetched.v), payload |-> payload.v,
                 visit |-> submission]
      next == IF skip \/ payload.threw THEN read
              ELSE [read EXCEPT
                      !.submissions = Append(r.submissions, submission),
                      !.sources = Append(r.sources, source)]
  IN IF next.todo # <<>> THEN {next} ELSE Finish(next)

----------------------------------------------------------------------------
(* Each specification leaves the variables of the others as they are here *)

EmptyStore == [sets |-> <<>>, hashes |-> <<>>]

PayloadIdle == ppRecord = EmptyMap /\ ppResult = Pending
SortIdle == sortInput = <<>> /\ sortBy = "none" /\ sortOutput = <<>>
ModuleIdle == EMPTY_METRICS = EmptyMetricsLiteral /\ invocations = <<>>
LoadIdle == store = EmptyStore /\ run = IdleRun /\ prev = Pending /\ ModuleIdle
HookIdle == hook = <<>> /\ requests = <<>>
BonusIdle == bonus = <<>>
FrontendIdle == HookIdle /\ BonusIdle

----------------------------------------------------------------------------
(* The stores and partner identifiers of the loadPartnerData specifications *)

\* a function given as a set of <<key, value>> pairs
MapOf(pairs) ==
  [k \in {q[1] : q \in pairs} |-> (CHOOSE q \in pairs : q[1] = k)[2]]

K1 == <<"qr", "e1", "ab", "v1">>
K1Upper == <<"qr", "e1", "AB", "v1">>
K2 == <<"qr", "e2", "ab", "v2">>
K3 == <<"qr", "e3", "ab", "v3">>
KLegacy1 == LegacyRecordKey("e1")

Current1 ==
  [email |-> Str("e1"), visited |-> Str("true"), visitedAt |-> Str("2024-06-01"),
   createdAt |-> Str("2024-06-01")]
Current2 ==
  [email |-> Str("e2"), createdAt |-> Str("2024-01-01"), estimatedPoints |-> Num(20),
   payload |-> Str(OuterPlain)]
Legacy1 ==
  [email |-> Str("e1"), partnerId |-> Str("ab"), totalPrice |-> Num(100),
   createdAt |-> Str("2024-01-01")]
Legacy2 ==
  [email |-> Str("e2"), totalPrice |-> Num(200), estimatedPoints |-> Num(10)]

\* which visit sets exist, under which spelling of the partner, holding what
VisitLayouts ==
  { {},
    {<<VisitSetKey("ab"), <<K1, K2>>>>},
    {<<VisitSetKey("AB"), <<K1, K2>>>>},
    {<<VisitSetKey("Ab"), <<K1>>>>},
    {<<VisitSetKey("ab"), <<K1>>>>, <<VisitSetKey("AB"), <<K1, K1Upper>>>>},
    {<<VisitSetKey("ab"), << <<"junk">>, KLegacy1 >>>>},
    {<<VisitSetKey("ab"), <<K3>>>>} }

\* which legacy email sets exist
EmailLayouts ==
  { {},
    {<<PartnerSetKey("ab"), <<"e1", "e2">>>>},
    {<<PartnerSetKey("AB"), <<"e1", "", "e1">>>>},
    {<<PartnerSetKey(" "), <<"e1">>>>} }

KeyingHashes ==
  MapOf({<<K1, Current1>>, <<K1Upper, Current1>>, <<K2, Current2>>,
         <<KLegacy1, Legacy1>>, <<LegacyRecordKey("e2"), Legacy2>>})

\* stores that differ in where the sets are kept
KeyingStores ==
  {[sets |-> MapOf(v \cup e), hashes |-> KeyingHashes] : v \in VisitLayouts, e \in EmailLayouts}

PointsFields(awarded, estimated) ==
  Spread(IF awarded = Undef THEN EmptyMap ELSE [pointsAwarded |-> awarded],
         IF estimated = Undef THEN EmptyMap ELSE [estimatedPoints |-> estimated])

\* what the hash of the member key K1 holds
PrimaryRecords ==
  {Spread([email |-> Str("e1"), createdAt |-> Str("2024-06-01")], PointsFields(a, e)) :
     a \in {Undef, Num(0), Num(5)}, e \in {Undef, Num(0), Str("3")}}
  \cup
  {[visited |-> Bool(TRUE), visitedAt |-> Str("2024-01-01")],
   [email |-> Str("e1"), payload |-> Obj([points |-> Num(20), partnerName |-> Str("Spa")])],
   [email |-> Str("e1"), pointsAwarded |-> Num(0),
    payload |-> Obj([estimatedPoints |-> Num(10), pointsAwarded |-> Num(5)])]}

\* what the legacy hash qr:email:e1 holds
LegacyRecords ==
  {[email |-> Str("e1"), totalPrice |-> Num(100)],
   [email |-> Str("e1"), pointsAwarded |-> Num(5), estimatedPoints |-> Num(3),
    visitId |-> Str("v0"), used |-> Str("true")],
   [email |-> Str("e1"), visited |-> Str("false"), payload |-> Str(OuterDouble)]}

WithHash(key, records) == {{}} \cup {{<<key, r>>} : r \in records}

\* stores that differ in what the records of one visit hold
RecordStores ==
  {[sets |-> MapOf({<<VisitSetKey("ab"), <<K1, K2>>>>, <<PartnerSetKey("ab"), <<"e1">>>>}),
    hashes |-> MapOf(p \cup l \cup {<<K2, Current2>>})] :
     p \in WithHash(K1, PrimaryRecords), l \in WithHash(KLegacy1, LegacyRecords)}

\* one record, kept either as the hash of the member key K1 (visit-set path) or
\* as the legacy hash of the email e1 (legacy path)
OneRecordStores(records) ==
  {[sets |-> MapOf({<<VisitSetKey("ab"), <<K1>>>>}), hashes |-> MapOf({<<K1, r>>})] :
     r \in records}
  \cup
  {[sets |-> MapOf({<<PartnerSetKey("ab"), <<"e1">>>>}), hashes |-> MapOf({<<KLegacy1, r>>})] :
     r \in records}

\* records that differ in the fields the used and visited flags are read from
StatusRecords ==
  {Spread([email |-> Str("e1")], fields) :
     fields \in {EmptyMap,
                 [used |-> Str("true")],
                 [used |-> Bool(TRUE)],
                 [used |-> Str(" Used ")],
                 [status |-> Str("Completed")],
                 [status |-> Str("redeemed")],
                 [status |-> Str("Visited")],
                 [status |-> Str("pending")],
                 [visited |-> Str("TRUE")],
                 [visited |-> Bool(FALSE), visitedAt |-> Str("2024-06-01")],
                 [payload |-> Obj([status |-> Str("approved")])],
                 [payload |-> Obj([used |-> Str("yes"), visitedAt |-> Str("")])]}}

\* records that differ in the fields the price is read from
PriceRecords ==
  {Spread([email |-> Str("e1")], fields) :
     fields \in {[totalPrice |-> Num(100)],
                 [price |-> Num(100)],
                 [totalPrice |-> Str("200")],
                 [totalPrice |-> Str("-50")],
                 [totalPrice |-> Str("garbage")],
                 [totalPrice |-> Num(100), payload |-> Obj([price |-> Num(200)])],
                 [price |-> Num(100), payload |-> Obj([totalPrice |-> Num(0)])],
                 [totalPrice |-> Num(100), payload |-> Obj([totalPrice |-> Null])]}}

\* records that differ in how the payload tags the ticket type
TicketRecords ==
  {[email |-> Str("e1"), payload |-> Obj(fields)] :
     fields \in {[ticket |-> Str("BonusReward")],
                 [ticket |-> Str("BONUSREWARD")],
                 [ticket |-> Str("bonusreward")],
                 [ticketType |-> Str("BonusReward")],
                 [ticket |-> Str("VIP"), ticketType |-> Str("BonusReward")],
                 [ticket |-> Str("VIP")]}}

\* records whose payload carries keys of its own under the names of derived
\* visit fields, next to fields that are only passed through
OverridingRecords ==
  {[email |-> Str("e1"), createdAt |-> Str("2024-06-01"),
    payload |-> Obj([email |-> Str("px"), partnerId |-> Str("zz"), category |-> Str("spa")])],
   [email |-> Str("e1"),
    payload |-> Obj([used |-> Str("no"), visited |-> Str("no"), headcount |-> Num(3)])],
   [email |-> Str("e1"), createdAt |-> Str("2024-06-01"),
    payload |-> Obj([createdAt |-> Str("2024-01-01"), totalPrice |-> Str("100"),
                     estimatedPoints |-> Str("10"), pointsAwarded |-> Str("5")])]}

\* records that carry a partnerId of their own
PartnerIdRecords ==
  {[email |-> Str("e1"), partnerId |-> Str("zz")],
   [email |-> Str("e1"), partnerId |-> Str("AB")]}

PricedVisit(email, price, points) ==
  [email |-> Str(email), totalPrice |-> Num(price), estimatedPoints |-> Num(points)]

\* ledgers of two and three visits whose prices and points are averaged
AverageStores ==
  {[sets |-> MapOf({<<VisitSetKey("ab"), <<K1, K2, K3>>>>}),
    hashes |-> MapOf({<<K1, PricedVisit("e1", 100, 10)>>, <<K2, PricedVisit("e2", 200, 20)>>,
                      <<K3, PricedVisit("e3", 0, 5)>>})],
   [sets |-> MapOf({<<VisitSetKey("ab"), <<K1, K2>>>>}),
    hashes |-> MapOf({<<K1, PricedVisit("e1", 100, 1)>>, <<K2, PricedVisit("e2", 1, 0)>>})]}

Stores ==
  KeyingStores \cup RecordStores \cup OneRecordStores(StatusRecords)
    \cup OneRecordStores(PriceRecords) \cup AverageStores
    \cup OneRecordStores(TicketRecords) \cup OneRecordStores(OverridingRecords)
    \cup OneRecordStores(PartnerIdRecords)

PartnerIds ==
  {Undef, Null, Str(""), Str(" "), Str("ab"), Str("Ab"), Str("AB"), Str(" ab")}

MaxFailures == 1

----------------------------------------------------------------------------
(* The loadPartnerData specification: one invocation against a store whose
   reads may fail *)

Init ==
  /\ store \in Stores
  /\ run = IdleRun
  /\ prev = Pending
  /\ ModuleIdle
  /\ PayloadIdle
  /\ SortIdle
  /\ FrontendIdle

\* loadPartnerData(partnerId) is called
Invoke ==
  /\ run.pc = "idle"
  /\ \E partnerId \in PartnerIds, up \in BOOLEAN :
       run' = StartRun(partnerId, up, MaxFailures)
  /\ UNCHANGED <<store, prev, ppVars, sortVars, moduleVars, frontendVars>>

\* the smembers of one visit set ends
AwaitVisitSet ==
  /\ run.pc = "visitSets"
  /\ \E oks \in ReadOutcomes(run, 1) : run' = ReadVisitSet(run, store, oks[1])
  /\ store' = StoreAfter(store, run'.reads)
  /\ UNCHANGED <<prev, ppVars, sortVars, moduleVars, frontendVars>>

\* the hgetall calls of one member key end
AwaitVisitRecord ==
  /\ run.pc = "visitRecords"
  /\ \E oks \in ReadOutcomes(run, IF VisitEmailFromKey(Head(run.todo)) # "" THEN 2 ELSE 1) :
       run' \in LoadVisitRecord(run, store, oks)
  /\ store' = StoreAfter(store, run'.reads)
  /\ UNCHANGED <<prev, ppVars, sortVars, moduleVars, frontendVars>>

\* the smembers of the legacy email sets end
AwaitEmailSets ==
  /\ run.pc = "emailSets"
  /\ \E oks \in ReadOutcomes(run, Len(run.todo)) : run' = ReadEmailSets(run, store, oks)
  /\ store' = StoreAfter(store, run'.reads)
  /\ UNCHANGED <<prev, ppVars, sortVars, moduleVars, frontendVars>>

\* the hgetall of one legacy record ends
AwaitLegacyRecord ==
  /\ run.pc = "legacyRecords"
  /\ \E oks \in ReadOutcomes(run, 1) : run' \in LoadLegacyRecord(run, store, oks[1])
  /\ store' = StoreAfter(store, run'.reads)
  /\ UNCHANGED <<prev, ppVars, sortVars, moduleVars, frontendVars>>

Next ==
  \/ Invoke
  \/ AwaitVisitSet
  \/ AwaitVisitRecord
  \/ AwaitEmailSets
  \/ AwaitLegacyRecord

Spec == Init /\ [][Next]_vars

----------------------------------------------------------------------------
(* The comparison specification: loadPartnerData is called twice against the
   same store, every read succeeding, and the first call's result is kept *)

InitTwice == Init

\* loadPartnerData(partnerId) is called while the store answers every read
InvokeReliably ==
  /\ run.pc = "idle"
  /\ \E partnerId \in PartnerIds : run' = StartRun(partnerId, TRUE, 0)
  /\ UNCHANGED <<store, prev, ppVars, sortVars, moduleVars, frontendVars>>

\* the caller keeps the first call's identifier and result and calls again
Again ==
  /\ run.pc = "done"
  /\ prev = Pending
  /\ prev' = [partnerId |-> run.partnerId, result |-> run.result]
  /\ run' = IdleRun
  /\ UNCHANGED <<store, ppVars, sortVars, moduleVars, frontendVars>>

NextTwice ==
  \/ InvokeReliably
  \/ AwaitVisitSet
  \/ AwaitVisitRecord
  \/ AwaitEmailSets
  \/ AwaitLegacyRecord
  \/ Again

SpecTwice == InitTwice /\ [][NextTwice]_vars

----------------------------------------------------------------------------
(* The concurrent specification: several invocations of loadPartnerData run
   side by side over one store, their awaits interleaved in any order, and
   each caller may write into the result it was given *)

MaxInvocations == 2

Invocations == 1..MaxInvocations

ConcurrentStores ==
  {[sets |-> MapOf(v \cup e), hashes |-> KeyingHashes] :
     v \in {{}, {<<VisitSetKey("ab"), <<K1, K2>>>>}},
     e \in {{}, {<<PartnerSetKey("ab"), <<"e1", "e2">>>>}}}

ConcurrentIds == {Str(""), Str("ab"), Str("AB")}

\* the continuations of an invocation after its next await, every read succeeding
Steps(r, st) ==
  CASE r.pc = "visitSets" -> {ReadVisitSet(r, st, TRUE)}
    [] r.pc = "visitRecords" -> LoadVisitRecord(r, st, <<TRUE, TRUE>>)
    [] r.pc = "emailSets" -> {ReadEmailSets(r, st, [i \in DOMAIN r.todo |-> TRUE])}
    [] r.pc = "legacyRecords" -> LoadLegacyRecord(r, st, TRUE)
    [] OTHER -> {}

\* an invocation run from its call to its return with nothing else going on
RECURSIVE RunAlone(_, _)
RunAlone(r, st) ==
  IF r.pc = "done" THEN r ELSE RunAlone(CHOOSE next \in Steps(r, st) : TRUE, st)

Underway(i) == invocations[i].r.pc \notin {"idle", "done"}

\* invocation i moves while another invocation is between two of its awaits
Overlaps(i) == invocations[i].overlapped \/ \E j \in Invocations \ {i} : Underway(j)

InitConcurrent ==
  /\ store \in ConcurrentStores
  /\ run = IdleRun
  /\ prev = Pending
  /\ EMPTY_METRICS = EmptyMetricsLiteral
  /\ invocations = [i \in Invocations |-> [r |-> IdleRun, overlapped |-> FALSE, changed |-> FALSE]]
  /\ PayloadIdle
  /\ SortIdle
  /\ FrontendIdle

\* a request calls loadPartnerData(partnerId)
Call ==
  /\ \E i \in Invocations, partnerId \in ConcurrentIds :
       /\ invocations[i].r.pc = "idle"
       /\ invocations' = [invocations EXCEPT ![i].r = StartRun(partnerId, TRUE, 0),
                                              ![i].overlapped = Overlaps(i)]
  /\ UNCHANGED <<store, run, prev, EMPTY_METRICS, ppVars, sortVars, frontendVars>>

\* one invocation's pending await ends and it runs to its next await or return
Resume ==
  /\ \E i \in Invocations :
       \E next \in Steps(invocations[i].r, store) :
         /\ invocations' = [invocations EXCEPT ![i].r = next, ![i].overlapped = Overlaps(i)]
         /\ store' = StoreAfter(store, next.reads)
  /\ UNCHANGED <<run, prev, EMPTY_METRICS, ppVars, sortVars, frontendVars>>

\* the caller of a returned invocation writes into the metrics object it was
\* given; the write lands in whichever object that is
CallerChanges ==
  /\ \E i \in Invocations :
       LET r == invocations[i].r IN
       /\ r.pc = "done" /\ ~r.result.threw /\ ~invocations[i].changed
       /\ LET written == [r.result.v.metrics EXCEPT !.count = Num(99)] IN
          /\ invocations' = [invocations EXCEPT ![i].changed = TRUE,
                                                 ![i].r.result.v.metrics = written]
          /\ EMPTY_METRICS' = IF r.metricsObject = "EMPTY_METRICS" THEN written
                              ELSE EMPTY_METRICS
  /\ UNCHANGED <<store, run, prev, ppVars, sortVars, frontendVars>>

NextConcurrent ==
  \/ Call
  \/ Resume
  \/ CallerChanges

SpecConcurrent == InitConcurrent /\ [][NextConcurrent]_vars

----------------------------------------------------------------------------
(* Inputs of the parsePayload specification *)

BaseValue(f) ==
  CASE f = "ticket" -> Str("Std")
    [] f = "totalPrice" -> Num(100)
    [] OTHER -> Str("Spa")

OuterBases == {[f \in S |-> BaseValue(f)] : S \in SUBSET {"ticket", "totalPrice", "partnerName"}}

DataValues ==
  {Str(NestedVip), Str(NestedTicket), Str(NestedData), Str("{oops"), Str("null"),
   Str(""), Num(7), Obj(EmptyMap)}

OuterMaps ==
  OuterBases \cup {Spread(b, [data |-> d]) : b \in OuterBases, d \in DataValues}

PayloadTexts ==
  {"{}", OuterDouble, OuterConflict, OuterBadData, OuterPlain, NestedData,
   "null", "5", "true", "\"ab\"", "\"\"", "{oops", "not json"}

PayloadValues ==
  {Null, Str(""), Num(0), Num(5), Bool(FALSE), Bool(TRUE)}
    \cup {Str(x) : x \in PayloadTexts}
    \cup {Obj(m) : m \in OuterMaps}

PayloadRecords == {EmptyMap} \cup {[payload |-> v] : v \in PayloadValues}


InitPayload ==
  /\ ppRecord \in PayloadRecords
  /\ ppResult = Pending
  /\ SortIdle
  /\ LoadIdle
  /\ FrontendIdle

\* one call of parsePayload(record)
CallParsePayload ==
  /\ ppResult = Pending
  /\ ppResult' = ParsePayload(ppRecord)
  /\ UNCHANGED <<ppRecord, sortVars, loadVars, moduleVars, frontendVars>>

NextPayload == CallParsePayload

SpecPayload == InitPayload /\ [][NextPayload]_vars

----------------------------------------------------------------------------
(* The sorting specification: the ledger sort of loadPartnerData and the two
   dashboard helpers, applied to lists of visits with every kind of createdAt *)

MaxLedger == 3

CreatedAtValues == {Undef, Null, Str("garbage"), Str("2024-01-01"), Str("2024-06-01")}

VisitName(i) ==
  CASE i = 1 -> "v1" [] i = 2 -> "v2" [] i = 3 -> "v3" [] i = 4 -> "v4" [] OTHER -> "v5"

\* the i-th visit of a list: named by position, createdAt absent when undefined
SortVisit(i, c) ==
  IF c = Undef THEN [visitId |-> Str(VisitName(i))]
  ELSE [visitId |-> Str(VisitName(i)), createdAt |-> c]

SortInputs ==
  UNION {{[i \in 1..n |-> SortVisit(i, cs[i])] : cs \in [1..n -> CreatedAtValues]} : n \in 0..MaxLedger}

InitSort ==
  /\ sortInput \in {Arr(l) : l \in SortInputs} \cup {Undef}
  /\ sortBy = "none"
  /\ sortOutput = <<>>
  /\ PayloadIdle
  /\ LoadIdle
  /\ FrontendIdle

\* partner-data.js 378-382: submissions.sort(...) inside loadPartnerData
SortLedger ==
  /\ sortBy = "none"
  /\ sortInput.t = "array"
  /\ \E out \in ArraySort(sortInput.a, "loadPartnerData") : sortOutput' = out
  /\ sortBy' = "loadPartnerData"
  /\ UNCHANGED <<sortInput, ppVars, loadVars, moduleVars, frontendVars>>

\* usePartnerData.ts 27-36
SortPartnerSubmissions ==
  /\ sortBy = "none"
  /\ IF sortInput.t # "array"
     THEN sortOutput' = <<>>
     ELSE \E out \in ArraySort(sortInput.a, "sortPartnerSubmissions") : sortOutput' = out
  /\ sortBy' = "sortPartnerSubmissions"
  /\ UNCHANGED <<sortInput, ppVars, loadVars, moduleVars, frontendVars>>

\* the admin dashboard's sortSubmissionsByCreatedAt
SortSubmissionsByCreatedAt ==
  /\ sortBy = "none"
  /\ sortInput.t = "array"
  /\ \E out \in ArraySort(sortInput.a, "sortSubmissionsByCreatedAt") : sortOutput' = out
  /\ sortBy' = "sortSubmissionsByCreatedAt"
  /\ UNCHANGED <<sortInput, ppVars, loadVars, moduleVars, frontendVars>>

NextSort == SortLedger \/ SortPartnerSubmissions \/ SortSubmissionsByCreatedAt

SpecSort == InitSort /\ [][NextSort]_vars

----------------------------------------------------------------------------
(* The legacy-only copy of the module (src/unnamed/part_006): the same
   parsePayload, guard, email sets, sort and label, no visit sets, and its own
   visit and metrics *)

\* part_006 97-115: the fields the copy derives for a visit
LegacyOnlyFields(record, payload, partnerId, normalizedId) ==
  LET totalPrice ==
        NumberOrZero(Or(Prop(payload, "totalPrice"), Or(Get(record, "totalPrice"), Num(0))))
      estimatedPoints ==
        NumberOrZero(Or(Prop(payload, "estimatedPoints"), Or(Get(record, "estimatedPoints"), Num(0))))
      visited == ToLowerCase(ToString(Or(Get(record, "visited"), Str("")))) = "true"
      canonicalPartnerId ==
        Or(Str(normalizedId), Str(Trim(ToString(Or(partnerId, Str(""))))))
  IN [partnerId |-> canonicalPartnerId,
      email |-> Get(record, "email"),
      used |-> Bool(ToLowerCase(ToString(Or(Get(record, "used"), Str("")))) = "true"),
      createdAt |-> Or(Get(record, "createdAt"), Null),
      scannedAt |-> Or(Get(record, "scannedAt"), Null),
      totalPrice |-> totalPrice,
      estimatedPoints |-> estimatedPoints,
      visited |-> Bool(visited),
      visitedAt |-> Or(Get(record, "visitedAt"), Null),
      originalPayload |-> payload]

\* part_006 105-117: the derived fields first and the payload spread over them
LegacyOnlySubmission(record, payload, partnerId, normalizedId) ==
  Spread(LegacyOnlyFields(record, payload, partnerId, normalizedId), OwnProps(payload))

\* part_006 129-176
LegacyOnlyMetrics(submissions) ==
  LET revenue == SumSeq([i \in DOMAIN submissions |->
                           ToNumber(Or(Get(submissions[i], "totalPrice"), Num(0)))])
      points == SumSeq([i \in DOMAIN submissions |->
                          ToNumber(Or(Get(submissions[i], "estimatedPoints"), Num(0)))])
      used == Cardinality({i \in DOMAIN submissions : Truthy(Get(submissions[i], "used"))})
      visitedCount ==
        Cardinality({i \in DOMAIN submissions : Truthy(Get(submissions[i], "visited"))})
      bonusRedemptions ==
        Cardinality({i \in DOMAIN submissions :
                       Get(submissions[i], "ticket") = Str("BonusReward")})
      count == Len(submissions)
  IN [count |-> Num(count),
      used |-> Num(used),
      unused |-> Num(count - used),
      visited |-> Num(visitedCount),
      notVisited |-> Num(count - visitedCount),
      revenue |-> revenue,
      points |-> points,
      bonusRedemptions |-> Num(bonusRedemptions),
      averageRevenue |-> IF count # 0 THEN RoundedAverage(revenue, count) ELSE Num(0),
      averagePoints |-> IF count # 0 THEN RoundedAverage(points, count) ELSE Num(0)]

\* part_006 178-183
LegacyOnlyResult(partnerId, submissions) ==
  [partnerId |-> partnerId, submissions |-> submissions,
   metrics |-> LegacyOnlyMetrics(submissions), partnerLabel |-> PartnerLabel(submissions)]

\* part_006 123-183: sort, aggregate, return
LegacyOnlyFinish(r) ==
  {[r EXCEPT !.pc = "done", !.todo = <<>>, !.submissions = sorted,
               !.result = Returned(LegacyOnlyResult(r.partnerId, sorted)),
               !.metricsObject = "fresh"]
     : sorted \in ArraySort(r.submissions, "loadPartnerData")}

\* part_006 45-63: the call, up to its read of the email sets
LegacyOnlyStart(partnerId, up, budget) ==
  LET r == [IdleRun EXCEPT !.partnerId = partnerId, !.up = up, !.budget = budget] IN
  IF NormalizePartnerId(partnerId) = "" /\ ~Truthy(partnerId)
  THEN [r EXCEPT !.pc = "done", !.result = Returned(EmptyResult(partnerId)),
                 !.metricsObject = SpreadObject("EMPTY_METRICS")]
  ELSE ToEmailSets(r)

\* part_006 92-121: one record is loaded; after the last one the function goes
\* on to its end
LegacyOnlyLoadRecord(r, st, ok) ==
  LET email == Head(r.todo)
      fetched == Hgetall(st, LegacyRecordKey(email), ok)
      read == [r EXCEPT !.todo = Tail(r.todo),
                 !.reads = Append(r.reads,
                            ReadOf("hgetall", "legacy", LegacyRecordKey(email), <<email>>, ok))]
      skip == \/ fetched.threw
              \/ ~Truthy(fetched.v)
              \/ ~Truthy(Prop(fetched.v, "email"))
      payload == ParsePayload(OwnProps(fetched.v))
      submission == LegacyOnlySubmission(OwnProps(fetched.v), payload.v,
                                         r.partnerId, NormalizedId(r))
      source == [path |-> "legacyOnly", key |-> LegacyRecordKey(email),
                 primary |-> NotRead, legacy |-> fetched.v,
                 record |-> OwnProps(fetched.v), payload |-> payload.v,
                 visit |-> submission]
      next == IF skip \/ payload.threw THEN read
              ELSE [read EXCEPT
                      !.submissions = Append(r.submissions, submission),
                      !.sources = Append(r.sources, source)]
  IN IF next.todo # <<>> THEN {next} ELSE LegacyOnlyFinish(next)

InitLegacyOnly == Init

\* the copy's loadPartnerData(partnerId) is called
InvokeLegacyOnly ==
  /\ run.pc = "idle"
  /\ \E partnerId \in PartnerIds, up \in BOOLEAN :
       run' = LegacyOnlyStart(partnerId, up, MaxFailures)
  /\ UNCHANGED <<store, prev, ppVars, sortVars, moduleVars, frontendVars>>

\* the hgetall of one record ends
AwaitLegacyOnlyRecord ==
  /\ run.pc = "legacyRecords"
  /\ \E oks \in ReadOutcomes(run, 1) : run' \in LegacyOnlyLoadRecord(run, store, oks[1])
  /\ store' = StoreAfter(store, run'.reads)
  /\ UNCHANGED <<prev, ppVars, sortVars, moduleVars, frontendVars>>

NextLegacyOnly ==
  \/ InvokeLegacyOnly
  \/ AwaitEmailSets
  \/ AwaitLegacyOnlyRecord

SpecLegacyOnly == InitLegacyOnly /\ [][NextLegacyOnly]_vars

----------------------------------------------------------------------------
(* usePartnerData: one hook instance, its fetchData calls and their
   continuations.  A request is one call of fetchData that got past its guard;
   it stops at `await fetch(...)` and at `await response.json()`, and each of
   its continuations is one step. *)

MaxRequests == 2
MaxChanges == 1

\* an Error object
Err(name, message) == [t |-> "error", name |-> name, message |-> message]

\* usePartnerData.ts 54-57
CanFetch(h) == Truthy(h.partnerId) /\ Truthy(h.token)

\* usePartnerData.ts 38-52: the hook as first rendered, before its effects ran
RenderedHook(partnerId, token, onUnauthorized, autoRefresh, refreshIntervalMs) ==
  [phase |-> "rendered", partnerId |-> partnerId, token |-> token,
   onUnauthorized |-> onUnauthorized, autoRefresh |-> autoRefresh,
   refreshIntervalMs |-> refreshIntervalMs,
   data |-> Null, loading |-> FALSE, error |-> Null,
   abortController |-> 0, hasLoaded |-> FALSE,
   unauthorizedCalls |-> 0, resets |-> 0, changes |-> 0]

\* what the server answers to the request numbered n: a PartnerDashboardData
\* for the partner asked for, stamped with the request it answers
ResponseLedgers ==
  {Undef, Arr(<<>>),
   Arr(<<SortVisit(1, Str("2024-01-01")), SortVisit(2, Str("2024-06-01"))>>)}

ResponseBody(partnerId, n, submissions) ==
  [partnerId |-> partnerId, revision |-> n, submissions |-> submissions]

\* usePartnerData.ts 27-36
SortedSubmissions(submissions) ==
  IF submissions.t # "array" THEN {<<>>}
  ELSE ArraySort(submissions.a, "sortPartnerSubmissions")

\* usePartnerData.ts 109-112: { ...result, submissions: sortPartnerSubmissions(...) }
NormalizedResults(result) ==
  {[result EXCEPT !.submissions = Arr(sorted)] : sorted \in SortedSubmissions(result.submissions)}

\* a fetch that starts without aborting the one before it
KeepCurrent(h, reqs) == reqs

\* usePartnerData.ts 76-78: the controller of the request before is aborted
AbortCurrent(h, reqs) ==
  IF h.abortController = 0 THEN reqs
  ELSE [reqs EXCEPT ![h.abortController].aborted = TRUE]

\* the error of the request before left standing
ErrorKept(error) == error

\* usePartnerData.ts 87: setError(null)
ErrorAtStart(error) == Null

\* usePartnerData.ts 80-95: the request fetchData creates
NewRequest(h, background) ==
  [background |-> background, partnerId |-> h.partnerId, aborted |-> FALSE,
   stage |-> "fetch", outcome |-> "pending", response |-> Null, resets |-> h.resets,
   calls |-> (IF background THEN <<>> ELSE <<"setLoading">>) \o <<"setError">>]

\* usePartnerData.ts 70-95: fetchData up to its first await
FetchData(h, reqs, background) ==
  IF ~CanFetch(h) THEN [hook |-> h, requests |-> reqs]
  ELSE [hook |-> [h EXCEPT !.abortController = Len(reqs) + 1,
                           !.loading = IF background THEN @ ELSE TRUE,
                           !.error = ErrorAtStart(@)],
        requests |-> Append(AbortCurrent(h, reqs), NewRequest(h, background))]

\* usePartnerData.ts 122-126
Finally(h, req) == IF req.background THEN h ELSE [h EXCEPT !.loading = FALSE]

FinallyCalls(req) == IF req.background THEN <<>> ELSE <<"setLoading">>

Settled(req, outcome, response, calls) ==
  [req EXCEPT !.stage = "settled", !.outcome = outcome, !.response = response,
              !.calls = @ \o calls \o FinallyCalls(req)]

\* usePartnerData.ts 115-121: a non-abort error is caught
CatchError(h, req, err) == Finally([h EXCEPT !.error = err], req)

\* usePartnerData.ts 131-140, the cleanup: the current controller is aborted
Cleanup(h, reqs) == AbortCurrent(h, reqs)

\* usePartnerData.ts 59-64
ResetWithoutFetch(h) ==
  IF CanFetch(h) THEN h
  ELSE [h EXCEPT !.data = Null, !.hasLoaded = FALSE, !.resets = @ + 1]

\* usePartnerData.ts 131-134: the effect's fetch
EffectFetch(h, reqs) == FetchData(h, reqs, h.hasLoaded)

HookProps ==
  {RenderedHook(p, t, u, a, ms) :
     p \in {Undef, Str("p1")}, t \in {Null, Str("t1")}, u \in BOOLEAN, a \in BOOLEAN,
     ms \in {0, 30000}}

InitHook ==
  /\ hook \in HookProps
  /\ requests = <<>>
  /\ BonusIdle
  /\ PayloadIdle
  /\ SortIdle
  /\ LoadIdle

Unsettled(i) == requests[i].stage # "settled"
Mounted == hook.phase = "mounted"

\* the effects of the first render run, in order: 59-64, 66-68, 131-140
Mount ==
  /\ hook.phase = "rendered"
  /\ LET reset == [ResetWithoutFetch(hook) EXCEPT !.hasLoaded = FALSE, !.phase = "mounted"]
         started == EffectFetch(reset, requests)
     IN hook' = started.hook /\ requests' = started.requests
  /\ UNCHANGED <<ppVars, sortVars, loadVars, moduleVars, bonus>>

\* usePartnerData.ts 159-163: the caller invokes refetch()
Refetch ==
  /\ Mounted /\ CanFetch(hook) /\ Len(requests) < MaxRequests
  /\ LET started == FetchData(hook, requests, hook.hasLoaded)
     IN hook' = started.hook /\ requests' = started.requests
  /\ UNCHANGED <<ppVars, sortVars, loadVars, moduleVars, bonus>>

\* usePartnerData.ts 142-157: the interval fires
IntervalTick ==
  /\ Mounted /\ hook.autoRefresh /\ CanFetch(hook) /\ hook.refreshIntervalMs > 0
  /\ Len(requests) < MaxRequests
  /\ LET started == FetchData(hook, requests, hook.hasLoaded)
     IN hook' = started.hook /\ requests' = started.requests
  /\ UNCHANGED <<ppVars, sortVars, loadVars, moduleVars, bonus>>

\* the parent renders the hook with another partnerId or token: the cleanup of
\* 135-139 runs, then the effects whose dependencies changed, in order
ChangeProps ==
  /\ Mounted /\ hook.changes < MaxChanges /\ Len(requests) < MaxRequests
  /\ \E p \in {Undef, Str("p1"), Str("p2")}, t \in {Null, Str("t1")} :
       /\ <<p, t>> # <<hook.partnerId, hook.token>>
       /\ LET cleaned == Cleanup(hook, requests)
              rendered == [hook EXCEPT !.partnerId = p, !.token = t, !.changes = @ + 1]
              reset == IF CanFetch(rendered) # CanFetch(hook)
                         THEN ResetWithoutFetch(rendered) ELSE rendered
              other == IF p # hook.partnerId
                         THEN [reset EXCEPT !.hasLoaded = FALSE] ELSE reset
              started == EffectFetch(other, cleaned)
          IN hook' = started.hook /\ requests' = started.requests
  /\ UNCHANGED <<ppVars, sortVars, loadVars, moduleVars, bonus>>

\* the hook unmounts: the cleanup of 135-139 runs and the interval is cleared
Unmount ==
  /\ Mounted
  /\ hook' = [hook EXCEPT !.phase = "unmounted"]
  /\ requests' = Cleanup(hook, requests)
  /\ UNCHANGED <<ppVars, sortVars, loadVars, moduleVars, bonus>>

\* usePartnerData.ts 89-106: the fetch of a request that was not aborted ends,
\* rejected by the network or resolved with a status
FetchSettles ==
  \E i \in DOMAIN requests :
    /\ Unsettled(i) /\ requests[i].stage = "fetch" /\ ~requests[i].aborted
    /\ \E rejected \in BOOLEAN, status \in {200, 401, 403, 500} :
         LET req == requests[i] IN
         IF rejected
         THEN /\ status = 200
              /\ hook' = CatchError(hook, req, Err("TypeError", "Failed to fetch"))
              /\ requests' = [requests EXCEPT ![i] = Settled(req, "failed", Null, <<"setError">>)]
         ELSE IF status \in {401, 403}
         THEN /\ hook' = CatchError([hook EXCEPT !.unauthorizedCalls =
                                       IF hook.onUnauthorized THEN @ + 1 ELSE @],
                                    req, Err("Error", "Unauthorized"))
              /\ requests' = [requests EXCEPT ![i] =
                   Settled(req, "unauthorized", Null,
                           (IF hook.onUnauthorized THEN <<"onUnauthorized">> ELSE <<>>)
                             \o <<"setError">>)]
         ELSE IF status # 200
         THEN /\ hook' = CatchError(hook, req, Err("Error", "Request failed"))
              /\ requests' = [requests EXCEPT ![i] = Settled(req, "failed", Null, <<"setError">>)]
         ELSE /\ hook' = hook
              /\ requests' = [requests EXCEPT ![i].stage = "json"]
    /\ UNCHANGED <<ppVars, sortVars, loadVars, moduleVars, bonus>>

\* usePartnerData.ts 108-114: response.json() of a request that was not aborted
\* ends, with the parsed body or with a SyntaxError
JsonSettles ==
  \E i \in DOMAIN requests :
    /\ Unsettled(i) /\ requests[i].stage = "json" /\ ~requests[i].aborted
    /\ LET req == requests[i] IN
       \/ /\ hook' = CatchError(hook, req, Err("SyntaxError", "Unexpected token"))
          /\ requests' = [requests EXCEPT ![i] = Settled(req, "failed", Null, <<"setError">>)]
       \/ \E submissions \in ResponseLedgers :
            LET result == ResponseBody(req.partnerId, i, submissions) IN
            /\ \E normalized \in NormalizedResults(result) :
                 hook' = Finally([hook EXCEPT !.data = normalized, !.hasLoaded = TRUE], req)
            /\ requests' = [requests EXCEPT ![i] = Settled(req, "ok", result, <<"setData">>)]
    /\ UNCHANGED <<ppVars, sortVars, loadVars, moduleVars, bonus>>

\* usePartnerData.ts 115-126: the pending await of an aborted request rejects
\* with an AbortError: the catch returns, the finally runs
AbortSettles ==
  \E i \in DOMAIN requests :
    /\ Unsettled(i) /\ requests[i].aborted
    /\ hook' = Finally(hook, requests[i])
    /\ requests' = [requests EXCEPT ![i] = Settled(requests[i], "aborted", Null, <<>>)]
    /\ UNCHANGED <<ppVars, sortVars, loadVars, moduleVars, bonus>>

NextHook ==
  \/ Mount
  \/ Refetch
  \/ IntervalTick
  \/ ChangeProps
  \/ Unmount
  \/ FetchSettles
  \/ JsonSettles
  \/ AbortSettles

SpecHook == InitHook /\ [][NextHook]_vars

----------------------------------------------------------------------------
(* BonusPage: what one render derives from the user data the server sent.
   The page's memos are evaluated in the order the component lists them, one
   step each; a visit or a redemption is a function from field names to
   values. *)

MaxVisits == 2

\* BonusPage.tsx 267-270
NormalizePoints(value) ==
  LET numeric == IF value.t \in {"number", "NaN"} THEN value ELSE ToNumber(value) IN
  IF numeric.t = "number" THEN numeric ELSE Num(0)

\* BonusPage.tsx 358: new Date().toISOString(), the time of the render
RenderTime == Str("2025-03-01T00:00:00.000Z")

\* BonusPage.tsx 342-373: one element of the visits memo
NormalizeVisit(visit) ==
  LET pointsEarned ==
        NormalizePoints(Coalesce(Get(visit, "pointsEarned"), Get(visit, "estimatedPoints")))
      normalizedStatus ==
        IF ToLowerCase(Or(Get(visit, "status"), Str("")).s) = "visited"
        THEN "visited" ELSE "pending"
      partnerId ==
        Or(Get(visit, "partnerId"), Or(Get(visit, "partner_id"), Str("unknown-partner")))
      fallbackVisitDate ==
        Or(Get(visit, "visitDate"),
        Or(Get(visit, "confirmedDate"),
        Or(Get(visit, "preferredDateTime"),
        Or(Get(visit, "createdAt"),
        Or(Get(visit, "scannedAt"), RenderTime)))))
  IN Spread(visit,
       [partnerId |-> partnerId,
        partnerName |->
          Or(Get(visit, "partnerName"),
          Or(Get(visit, "attractionName"), Str(ToUpperCase(ToString(partnerId))))),
        pointsEarned |-> pointsEarned,
        status |-> Str(normalizedStatus),
        confirmedDate |-> Or(Get(visit, "confirmedDate"), Or(Get(visit, "visitedAt"), Null)),
        ticketType |-> Or(Get(visit, "ticketType"), Or(Get(visit, "ticket"), Str("Standard"))),
        visitDate |-> fallbackVisitDate])

\* BonusPage.tsx 271-275, 342-374: the visits memo
Visits(userData) ==
  LET visitList == Coalesce(Get(userData, "visits"), Arr(<<>>)).a IN
  [i \in DOMAIN visitList |-> NormalizeVisit(visitList[i])]

\* BonusPage.tsx 376-383: the redemptions memo
Redemptions(userData) ==
  LET list == Coalesce(Get(userData, "redemptions"), Arr(<<>>)).a IN
  [i \in DOMAIN list |->
     Spread(list[i], [pointsSpent |-> NormalizePoints(Get(list[i], "pointsSpent"))])]

\* BonusPage.tsx 402-406: the map and the counters before the first visit
EmptyTally ==
  [partnerMap |-> <<>>, confirmedPoints |-> Num(0), pendingPoints |-> Num(0),
   confirmedVisits |-> 0, pendingVisits |-> 0]

\* Map.get: the position of the key in the map's insertion order, 0 if absent
MapIndex(partnerMap, key) ==
  IF \E i \in DOMAIN partnerMap : partnerMap[i].partnerId = key
  THEN CHOOSE i \in DOMAIN partnerMap : partnerMap[i].partnerId = key
  ELSE 0

\* BonusPage.tsx 422: the status test that picks the bucket of a visit
IsConfirmed(visit) == Get(visit, "status") = Str("visited")

\* BonusPage.tsx 408-436: one iteration of visits.forEach
TallyVisit(tally, visit) ==
  LET partnerId ==
        Or(Get(visit, "partnerId"), Or(Get(visit, "partnerName"), Str("unknown-partner")))
      at == MapIndex(tally.partnerMap, partnerId)
      existing ==
        IF at # 0 THEN tally.partnerMap[at]
        ELSE [partnerId |-> partnerId,
              partnerName |-> Or(Get(visit, "partnerName"), Str(ToUpperCase(partnerId.s))),
              totalVisits |-> 0,
              pendingVisits |-> 0,
              totalPoints |-> Num(0),
              pendingPoints |-> Num(0)]
      counted == [existing EXCEPT !.totalVisits = @ + 1]
      points == NormalizePoints(Get(visit, "pointsEarned"))
      summary ==
        IF IsConfirmed(visit)
        THEN [counted EXCEPT !.totalPoints = Plus(@, points)]
        ELSE [counted EXCEPT !.pendingVisits = @ + 1,
                             !.pendingPoints = Plus(Or(@, Num(0)), points)]
      partnerMap ==
        IF at # 0 THEN [tally.partnerMap EXCEPT ![at] = summary]
        ELSE Append(tally.partnerMap, summary)
  IN IF IsConfirmed(visit)
     THEN [tally EXCEPT !.partnerMap = partnerMap,
                        !.confirmedVisits = @ + 1,
                        !.confirmedPoints = Plus(@, points)]
     ELSE [tally EXCEPT !.partnerMap = partnerMap,
                        !.pendingVisits = @ + 1,
                        !.pendingPoints = Plus(@, points)]

\* BonusPage.tsx 408-436: visits.forEach
RECURSIVE TallyVisits(_, _)
TallyVisits(tally, visits) ==
  IF visits = <<>> THEN tally
  ELSE TallyVisits(TallyVisit(tally, Head(visits)), Tail(visits))

\* BonusPage.tsx 390-450: the derivedVisitData memo, for each order the sort of
\* the partner summaries may return
DerivedVisitData(visits) ==
  IF Len(visits) = 0
  THEN {[derivedPartnerStats |-> <<>>, confirmedPoints |-> Num(0), pendingPoints |-> Num(0),
         confirmedVisits |-> 0, pendingVisits |-> 0, partnerCount |-> 0]}
  ELSE LET tally == TallyVisits(EmptyTally, visits) IN
       {[derivedPartnerStats |-> sorted,
         confirmedPoints |-> tally.confirmedPoints,
         pendingPoints |-> tally.pendingPoints,
         confirmedVisits |-> tally.confirmedVisits,
         pendingVisits |-> tally.pendingVisits,
         partnerCount |-> Len(tally.partnerMap)] :
          sorted \in ArraySort(tally.partnerMap, "derivedPartnerStats")}

\* BonusPage.tsx 498-505
RECURSIVE DerivedRedemptionPoints(_)
DerivedRedemptionPoints(redemptions) ==
  IF redemptions = <<>> THEN Num(0)
  ELSE Plus(DerivedRedemptionPoints(SubSeq(redemptions, 1, Len(redemptions) - 1)),
            NormalizePoints(Get(redemptions[Len(redemptions)], "pointsSpent")))

\* BonusPage.tsx 509
ServerAvailablePoints(userData) ==
  NormalizePoints(Coalesce(Get(Get(userData, "user"), "availablePoints"), Num(0)))

\* negative balances pass through
Unclamped(n) == n

\* BonusPage.tsx 523: Math.max(0, n)
MathMaxZero(n) == IF n > 0 THEN n ELSE 0

\* BonusPage.tsx 520-523
AvailablePoints(userData, derivedVisitData, redemptions) ==
  LET serverAvailablePoints == ServerAvailablePoints(userData) IN
  IF serverAvailablePoints.n > 0 THEN serverAvailablePoints
  ELSE Num(MathMaxZero(Minus(derivedVisitData.confirmedPoints,
                             DerivedRedemptionPoints(redemptions)).n))

\* the visits the user-points endpoint may send
RawVisits ==
  {[partnerId |-> Str("p1"), status |-> Str("visited"), pointsEarned |-> Num(10)],
   [partnerId |-> Str("p1"), status |-> Str("Visited"), pointsEarned |-> Str("20")],
   [partnerId |-> Str("p2"), status |-> Str("pending"), estimatedPoints |-> Num(5)],
   [partnerName |-> Str("Spa"), pointsEarned |-> Str("garbage")],
   [partner_id |-> Str("p2"), status |-> Str("visited"), pointsEarned |-> Num(-50)]}

RawVisitLists ==
  UNION {[1..n -> RawVisits] : n \in 0..MaxVisits}

\* the redemptions it may send
RawRedemptionLists ==
  {<<>>,
   <<[id |-> Str("r1"), pointsSpent |-> Num(30)]>>,
   <<[id |-> Str("r1"), pointsSpent |-> Str("4")], [id |-> Str("r2"), pointsSpent |-> NaN]>>}

\* the balances it may send
RawAvailablePoints == {Undef, Num(0), Num(100), Num(-50), Str("garbage")}

\* the bodies of /api/bonus/user-points
UserDatas ==
  {[user |-> IF available = Undef THEN [email |-> Str("a@x")]
             ELSE [email |-> Str("a@x"), availablePoints |-> available],
    visits |-> Arr(visitList),
    redemptions |-> Arr(redemptionList)] :
     available \in RawAvailablePoints,
     visitList \in RawVisitLists,
     redemptionList \in RawRedemptionLists}

\* BonusPage.tsx 139-145: the component's state after construction
InitBonus ==
  /\ bonus = [stage |-> "email", userData |-> Null, visits |-> <<>>, redemptions |-> <<>>,
              derivedVisitData |-> Null, availablePoints |-> Null]
  /\ HookIdle
  /\ PayloadIdle
  /\ SortIdle
  /\ LoadIdle

\* BonusPage.tsx 147-181: fetchUserPoints stores the body of a successful response
FetchUserPoints ==
  /\ bonus.stage = "email"
  /\ \E data \in UserDatas :
       bonus' = [bonus EXCEPT !.stage = "loaded", !.userData = data]
  /\ UNCHANGED <<ppVars, sortVars, loadVars, moduleVars, hook, requests>>

\* BonusPage.tsx 271-275, 342-383: the visits and redemptions memos
RenderVisits ==
  /\ bonus.stage = "loaded"
  /\ bonus' = [bonus EXCEPT !.stage = "visits",
                            !.visits = Visits(bonus.userData),
                            !.redemptions = Redemptions(bonus.userData)]
  /\ UNCHANGED <<ppVars, sortVars, loadVars, moduleVars, hook, requests>>

\* BonusPage.tsx 390-450
RenderDerivedVisitData ==
  /\ bonus.stage = "visits"
  /\ \E derived \in DerivedVisitData(bonus.visits) :
       bonus' = [bonus EXCEPT !.stage = "derived", !.derivedVisitData = derived]
  /\ UNCHANGED <<ppVars, sortVars, loadVars, moduleVars, hook, requests>>

\* BonusPage.tsx 498-523
RenderAvailablePoints ==
  /\ bonus.stage = "derived"
  /\ bonus' = [bonus EXCEPT !.stage = "rendered",
                            !.availablePoints =
                              AvailablePoints(bonus.userData, bonus.derivedVisitData,
                                              bonus.redemptions)]
  /\ UNCHANGED <<ppVars, sortVars, loadVars, moduleVars, hook, requests>>

NextBonus ==
  \/ FetchUserPoints
  \/ RenderVisits
  \/ RenderDerivedVisitData
  \/ RenderAvailablePoints

SpecBonus == InitBonus /\ [][NextBonus]_vars

----------------------------------------------------------------------------
(* What a finished call returned *)

Returns == run.pc = "done" /\ ~run.result.threw
Ledger == run.result.v.submissions
Metrics == run.result.v.metrics
LedgerVisits == {Ledger[i] : i \in DOMAIN Ledger}

----------------------------------------------------------------------------
(* C1: identifiers that differ by case or surrounding whitespace *)

\* two identifiers that are strings with the same trimmed, lower-cased form
SameUpToCaseAndSpace(a, b) ==
  /\ a.t = "string" /\ b.t = "string"
  /\ NormalizePartnerId(a) = NormalizePartnerId(b)

\* C1 (as claimed): for any store and any two partner identifiers that differ only
\* by letter case or by leading/trailing whitespace, loadPartnerData returns the
\* same ledger and the same metrics for both.
C1_SameLedgerForVariants ==
  (Returns /\ prev # Pending /\ SameUpToCaseAndSpace(prev.partnerId, run.partnerId))
    => /\ ~prev.result.threw
       /\ Ledger = prev.result.v.submissions
       /\ Metrics = prev.result.v.metrics

----------------------------------------------------------------------------
(* C2: one visit per (email, partnerId, visitId) *)

Triple(visit) == <<Get(visit, "email"), Get(visit, "partnerId"), Get(visit, "visitId")>>

\* C2 (as claimed): the ledger holds exactly one visit per distinct
\* (email, partnerId, visitId) triple: no two entries of the ledger share one.
C2_OneVisitPerTriple ==
  Returns => \A i, j \in DOMAIN Ledger : Triple(Ledger[i]) = Triple(Ledger[j]) => i = j

----------------------------------------------------------------------------
(* C3: the legacy record is merged underneath the primary record *)

\* a visit whose member key had a non-empty primary and a non-empty legacy record
BothRepresentations(src) ==
  /\ src.path = "visits"
  /\ src.primary # NotRead /\ ~IsEmptyRecord(src.primary)
  /\ src.legacy # NotRead /\ ~IsEmptyRecord(src.legacy)

\* C3: when the primary record and the legacy record of a member key are both
\* non-empty, the record that is normalized has exactly the fields of the two,
\* each with the primary record's value if the primary has the field and the
\* legacy record's value otherwise.
C3_PrimaryOverLegacy ==
  \A i \in DOMAIN run.sources :
    LET src == run.sources[i] IN
    BothRepresentations(src) =>
      /\ DOMAIN src.record = DOMAIN src.primary.m \cup DOMAIN src.legacy.m
      /\ \A f \in DOMAIN src.primary.m : src.record[f] = src.primary.m[f]
      /\ \A f \in DOMAIN src.legacy.m \ DOMAIN src.primary.m :
           src.record[f] = src.legacy.m[f]

\* a call has merged a primary record whose `visited` differs from the legacy
\* record's, and the legacy record brought a field the primary lacks
C3_Witness ==
  /\ Returns
  /\ \E i \in DOMAIN run.sources :
       LET src == run.sources[i] IN
       /\ BothRepresentations(src)
       /\ "visited" \in DOMAIN src.primary.m \cap DOMAIN src.legacy.m
       /\ src.primary.m["visited"] # src.legacy.m["visited"]
       /\ src.record["visited"] = src.primary.m["visited"]
       /\ "email" \in DOMAIN src.legacy.m \ DOMAIN src.primary.m
       /\ src.record["email"] = src.legacy.m["email"]

----------------------------------------------------------------------------
(* C4: the points a visit contributes *)

\* the number a numeric visit field holds (NaN does not occur in these fields)
Value(v) == IF v.t = "number" THEN v.n ELSE 0

\* the claim's contribution of one visit, from the visit's two fields
ClaimedPoints(visit) ==
  IF Value(Get(visit, "pointsAwarded")) # 0
  THEN Value(Get(visit, "pointsAwarded"))
  ELSE Value(Get(visit, "estimatedPoints"))

RECURSIVE Total(_)
Total(numbers) == IF numbers = <<>> THEN 0 ELSE Head(numbers) + Total(Tail(numbers))

\* the record's own two fields decide when the payload says nothing about points
PointsFromRecordAlone(src) ==
  \A f \in {"pointsAwarded", "estimatedPoints", "points"} : Prop(src.payload, f) = Undef

\* what the stored fields amount to: awarded if it is a nonzero number, else
\* the estimate, else 0
StoredPoints(record) ==
  LET awarded == ToNumber(Get(record, "pointsAwarded"))
      estimated == ToNumber(Get(record, "estimatedPoints"))
  IN IF Value(awarded) # 0 THEN Value(awarded) ELSE Value(estimated)

\* C4: metrics.points is the sum over the ledger of each visit's contribution,
\* which is its pointsAwarded when that is nonzero and its estimatedPoints
\* otherwise; and for every combination of absent, zero and nonzero stored
\* pointsAwarded and estimatedPoints the visit contributes the awarded points
\* when they are nonzero and the estimate otherwise.
C4_PointsContribution ==
  Returns =>
    /\ Metrics.points = Num(Total([i \in DOMAIN Ledger |-> ClaimedPoints(Ledger[i])]))
    /\ \A i \in DOMAIN run.sources :
         LET src == run.sources[i] IN
         /\ src.visit \in LedgerVisits
         /\ PointsFromRecordAlone(src) => ClaimedPoints(src.visit) = StoredPoints(src.record)

\* a ledger of two visits, one with awarded points and one that counts by its
\* estimate, has been totalled
C4_Witness ==
  /\ Returns
  /\ \E i, j \in DOMAIN Ledger :
       /\ Get(Ledger[i], "pointsAwarded") = Num(5)
       /\ Get(Ledger[j], "pointsAwarded") = Num(0)
       /\ Get(Ledger[j], "estimatedPoints") = Num(20)
  /\ Metrics.points = Num(25)

----------------------------------------------------------------------------
(* C5: the order of the sorted list *)

\* a createdAt that is present and parses as a date
Parseable(v) == Truthy(Get(v, "createdAt")) /\ DateGetTime(Get(v, "createdAt")).t = "number"

\* the time a visit sorts by according to the claim: epoch 0 unless parseable
ClaimedTime(v) == IF Parseable(v) THEN DateGetTime(Get(v, "createdAt")).n ELSE 0

PositionIn(list, v) == CHOOSE i \in DOMAIN list : list[i] = v

SortedAsClaimed(in, out) ==
  /\ Len(out) = Len(in)
  /\ \A v \in {in[i] : i \in DOMAIN in} : \E i \in DOMAIN out : out[i] = v
  /\ \A i, j \in DOMAIN out :
       i < j =>
         /\ ClaimedTime(out[i]) >= ClaimedTime(out[j])
         /\ (~Parseable(out[i]) => ~Parseable(out[j]))
         /\ (ClaimedTime(out[i]) = ClaimedTime(out[j])
               => PositionIn(in, out[i]) < PositionIn(in, out[j]))

\* C5 (as claimed): the ledger of loadPartnerData and the lists of the dashboard
\* sort helpers are in descending createdAt order, visits with a missing or
\* unparseable createdAt come after all parseable ones, and ties keep input order.
C5_SortedDescendingStable ==
  (sortBy # "none" /\ sortInput.t = "array") => SortedAsClaimed(sortInput.a, sortOutput)

\* the same statement for the two dashboard helpers alone
C5_HelpersSorted ==
  (sortBy \in {"sortPartnerSubmissions", "sortSubmissionsByCreatedAt"} /\ sortInput.t = "array")
    => SortedAsClaimed(sortInput.a, sortOutput)

----------------------------------------------------------------------------
(* C6, C7: parsePayload *)

ppCalled == ppResult # Pending
ppPayload == Get(ppRecord, "payload")
ppOuter == DecodeOuter(ppPayload)
ppOuterIsMap == Truthy(ppPayload) /\ ~ppOuter.threw /\ ppOuter.v.t = "object"
ppData == Prop(ppOuter.v, "data")
ppHasNestedText == ppOuterIsMap /\ ppData.t = "string" /\ Truthy(ppData)
ppNested == JSONParse(ppData.s)
ppNestedIsMap == ppHasNestedText /\ ~ppNested.threw /\ ppNested.v.t = "object"

\* C6 (as claimed): with a `data` string that parses to a map, the result is the
\* shallow merge in which nested-only keys are added and, for a key present in
\* both maps, the outer map's value is kept.
C6_OuterKeysWin ==
  (ppCalled /\ ppNestedIsMap) =>
    /\ ~ppResult.threw
    /\ ppResult.v.t = "object"
    /\ DOMAIN ppResult.v.m = DOMAIN ppOuter.v.m \cup DOMAIN ppNested.v.m
    /\ \A f \in DOMAIN ppNested.v.m \ DOMAIN ppOuter.v.m : ppResult.v.m[f] = ppNested.v.m[f]
    /\ \A f \in DOMAIN ppOuter.v.m : ppResult.v.m[f] = ppOuter.v.m[f]

\* C7: parsePayload never throws; an absent payload gives {}, a structured payload
\* without a nested `data` text is returned as it is, a string that fails JSON
\* parsing gives exactly { rawPayload: <the string> }, and a nested `data` text
\* that fails to parse leaves the outer map unchanged.
C7_ParsePayloadNeverThrows ==
  ppCalled =>
    /\ ~ppResult.threw
    /\ ("payload" \notin DOMAIN ppRecord => ppResult.v = Obj(EmptyMap))
    /\ (ppPayload.t = "object" /\ ~ppHasNestedText => ppResult.v = ppPayload)
    /\ (ppPayload.t = "string" /\ Truthy(ppPayload) /\ ppOuter.threw
          => ppResult.v = Obj([rawPayload |-> ppPayload]))
    /\ (ppHasNestedText /\ ppNested.threw => ppResult.v = ppOuter.v)

\* a string payload that is not JSON has been decoded to its placeholder
C7_Witness ==
  /\ ppCalled
  /\ ppPayload = Str("not json")
  /\ ppResult = Returned(Obj([rawPayload |-> Str("not json")]))

----------------------------------------------------------------------------
(* C8, C9, C10: failing reads and unresolvable identifiers *)

Reads == {run.reads[i] : i \in DOMAIN run.reads}
ReadsOk(role) == {rd \in Reads : rd.role = role /\ rd.ok}
Failed == {rd \in Reads : ~rd.ok}

StoredHash(key) == IF key \in DOMAIN store.hashes THEN store.hashes[key] ELSE EmptyMap
StoredSet(key) == IF key \in DOMAIN store.sets THEN store.sets[key] ELSE <<>>
Members(key) == {StoredSet(key)[i] : i \in DOMAIN StoredSet(key)}

HasVisitOfKey(visitKey) == \E v \in LedgerVisits : Get(v, "qrKey") = KeyString(visitKey)
HasVisitOfEmail(email) ==
  \E v \in LedgerVisits : Get(v, "qrKey") = Undef /\ Get(v, "email") = email

\* C8: a failed store read counts as an empty answer for its key alone: the call
\* still returns a result; the member keys it works on are those of the visit
\* sets whose read succeeded, and the emails those of the email sets whose read
\* succeeded; and every member key or email with a successful read of a
\* non-empty record has its visit in the ledger.
C8_FailedReadIsEmptyForItsKey ==
  run.pc = "done" =>
    /\ ~run.result.threw
    /\ {run.visitRecordKeys[i] : i \in DOMAIN run.visitRecordKeys}
         = UNION {{m \in Members(rd.key) : IsVisitMember(m)} : rd \in ReadsOk("visitSet")}
    /\ {rd.member[1] : rd \in {x \in Reads : x.role = "legacy"}}
         = UNION {{e \in Members(rd.key) : IsEmail(e)} : rd \in ReadsOk("emailSet")}
    /\ \A rd \in ReadsOk("primary") :
         StoredHash(rd.key) # EmptyMap => HasVisitOfKey(rd.member)
    /\ \A rd \in ReadsOk("merge") :
         StoredHash(rd.key) # EmptyMap => HasVisitOfKey(rd.member)
    /\ \A rd \in ReadsOk("legacy") :
         Truthy(Get(StoredHash(rd.key), "email"))
           => HasVisitOfEmail(Get(StoredHash(rd.key), "email"))

\* exactly one read has failed, the read of a legacy record to merge, and the
\* visit of its member key and that of another member key are in the ledger
C8_Witness ==
  /\ Returns
  /\ Cardinality(Failed) = 1
  /\ \E rd \in Failed :
       /\ rd.role = "merge"
       /\ HasVisitOfKey(rd.member)
       /\ \E other \in ReadsOk("primary") : other.member # rd.member /\ HasVisitOfKey(other.member)

\* C9 (as claimed): when every smembers and hgetall call of a run fails, the
\* call propagates a failure to its caller instead of returning a ledger.
C9_UnreachableStorePropagates ==
  (run.pc = "done" /\ Reads # {} /\ Failed = Reads) => run.result.threw

\* null, undefined, the empty string, or a string of whitespace only
Unresolvable(partnerId) ==
  \/ IsNullish(partnerId)
  \/ partnerId.t = "string" /\ Trim(partnerId.s) = ""

\* C10 (as claimed): for an empty or unresolvable identifier the call reads
\* nothing from the store and returns an empty ledger with zero-value metrics
\* and partnerLabel null, without raising an error.
C10_UnresolvableReadsNothing ==
  (run.pc = "done" /\ Unresolvable(run.partnerId)) =>
    /\ run.reads = <<>>
    /\ run.result = Returned(EmptyResult(run.partnerId))

----------------------------------------------------------------------------
(* C11, C12, C13: the metrics object *)

MetricsFields ==
  {"count", "used", "unused", "visited", "notVisited", "revenue", "points",
   "bonusRedemptions", "averageRevenue", "averagePoints"}

\* the partner segment of a set key: partner:<id>, partner:visits:<id>
PartnerOfSetKey(key) == key[Len(key)]

\* no set of the store is kept under any spelling of the identifier
NoMatchingKey ==
  \A key \in DOMAIN store.sets :
    NormalizePartnerId(Str(PartnerOfSetKey(key))) # NormalizedId(run)

\* C11: for a non-empty identifier with no matching key anywhere in the store the
\* call returns submissions = [], partnerLabel = null and metrics whose ten
\* fields are all 0; and every result carries all ten metrics fields.
C11_NoMatchGivesZeroMetrics ==
  run.pc = "done" =>
    /\ ~run.result.threw
    /\ DOMAIN Metrics = MetricsFields
    /\ (NormalizedId(run) # "" /\ NoMatchingKey) =>
         /\ Ledger = <<>>
         /\ run.result.v.partnerLabel = Null
         /\ \A f \in MetricsFields : Metrics[f] = Num(0)

\* a call for "ab" against a store that keeps sets, none of them under a
\* spelling of "ab", has read its candidate keys and returned the empty result
C11_Witness ==
  /\ Returns
  /\ run.partnerId = Str("ab")
  /\ store.sets # <<>> /\ NoMatchingKey
  /\ run.reads # <<>> /\ Failed = {}
  /\ Ledger = <<>> /\ Metrics.count = Num(0) /\ Metrics.averagePoints = Num(0)

\* the number of visits of a list whose flag is true
Flagged(list, flag) == Cardinality({i \in DOMAIN list : Get(list[i], flag) = Bool(TRUE)})

\* unused = count - used and notVisited = count - visited, over the flags of
\* the list the metrics were computed from
CountsAddUp(metrics, list) ==
  /\ metrics.count = Num(Len(list))
  /\ metrics.used = Num(Flagged(list, "used"))
  /\ metrics.visited = Num(Flagged(list, "visited"))
  /\ metrics.unused.n = metrics.count.n - metrics.used.n
  /\ metrics.notVisited.n = metrics.count.n - metrics.visited.n
  /\ metrics.unused.n >= 0 /\ metrics.notVisited.n >= 0

\* C12: for every ledger, the empty one included, the metrics have
\* unused = count - used and notVisited = count - visited, used and visited
\* being the numbers of visits whose flag is true; the metrics the partner
\* dashboard derives from the same ledger satisfy the same equations.
C12_CountsAddUp ==
  Returns => /\ CountsAddUp(Metrics, Ledger)
             /\ CountsAddUp(DashboardMetrics(Ledger), Ledger)

\* a ledger of two visits, one of them used and visited, has been counted
C12_Witness ==
  /\ Returns
  /\ Metrics.count = Num(2) /\ Metrics.used = Num(1) /\ Metrics.unused = Num(1)
  /\ Metrics.visited = Num(1) /\ Metrics.notVisited = Num(1)

\* a is total / count rounded to the nearest integer, a half rounding up
NearestInteger(a, total, count) ==
  /\ 2 * (a * count - total) <= count
  /\ 2 * (total - a * count) < count

\* C13: metrics.revenue is the sum of totalPrice over the ledger, and
\* averageRevenue and averagePoints are revenue / count and points / count
\* rounded to the nearest integer, and 0 when count is 0.
C13_RevenueAndAverages ==
  Returns =>
    LET count == Len(Ledger) IN
    /\ Metrics.revenue = Num(Total([i \in DOMAIN Ledger |-> Value(Get(Ledger[i], "totalPrice"))]))
    /\ IF count = 0
       THEN Metrics.averageRevenue = Num(0) /\ Metrics.averagePoints = Num(0)
       ELSE /\ Metrics.averageRevenue.t = "number"
            /\ NearestInteger(Metrics.averageRevenue.n, Metrics.revenue.n, count)
            /\ Metrics.averagePoints.t = "number"
            /\ NearestInteger(Metrics.averagePoints.n, Metrics.points.n, count)

\* the ledger with prices 100, 200, 0 and estimated points 10, 20, 5 has been
\* totalled: revenue 300, points 35, averages 100 and 12
C13_Witness ==
  /\ Returns
  /\ Len(Ledger) = 3
  /\ {Get(Ledger[i], "totalPrice") : i \in DOMAIN Ledger} = {Num(100), Num(200), Num(0)}
  /\ Metrics.revenue = Num(300) /\ Metrics.points = Num(35)
  /\ Metrics.averageRevenue = Num(100) /\ Metrics.averagePoints = Num(12)

----------------------------------------------------------------------------
(* C14: invocations running side by side *)

\* C14: every one of the invocations running concurrently over the unchanging
\* store returns what it returns when run alone; the metrics object a result
\* carries is never the module-level EMPTY_METRICS object, so that a caller's
\* write into its result leaves EMPTY_METRICS, and with it every other
\* invocation, as it was.
C14_InvocationsIndependent ==
  /\ EMPTY_METRICS = EmptyMetricsLiteral
  /\ \A i \in Invocations :
       LET inv == invocations[i] IN
       inv.r.pc = "done" =>
         /\ inv.r.metricsObject # "EMPTY_METRICS"
         /\ ~inv.changed =>
              inv.r.result = RunAlone(StartRun(inv.r.partnerId, TRUE, 0), store).result

\* two invocations overlapped; the caller of one, given the empty result, wrote
\* into its metrics, and the other returned the empty result with zero metrics
C14_Witness ==
  \E i, j \in Invocations :
    /\ i # j
    /\ invocations[i].r.pc = "done" /\ invocations[j].r.pc = "done"
    /\ invocations[i].overlapped /\ invocations[j].overlapped
    /\ invocations[i].changed /\ ~invocations[j].changed
    /\ invocations[i].r.result.v.submissions = <<>>
    /\ invocations[i].r.result.v.metrics.count = Num(99)
    /\ invocations[j].r.result.v.submissions = <<>>
    /\ invocations[j].r.result.v.metrics = EmptyMetricsLiteral

----------------------------------------------------------------------------
(* C15: nothing is written *)

\* C15: an invocation only issues smembers and hgetall reads, and no step of
\* it, whether its reads succeed or fail and whatever it returns, changes what
\* the store holds.
C15_StoreNeverWritten ==
  [][/\ store' = store
     /\ \A i \in DOMAIN run'.reads : run'.reads[i].op \in {"smembers", "hgetall"}]_vars

\* an invocation has returned a ledger after reading sets and hashes, one of
\* the reads having failed, against a store that holds both
C15_Witness ==
  /\ Returns
  /\ Ledger # <<>>
  /\ {rd.op : rd \in Reads} = {"smembers", "hgetall"}
  /\ Failed # {}
  /\ store.sets # <<>> /\ store.hashes # <<>>

----------------------------------------------------------------------------
(* C16: when the legacy path is taken *)

\* the call went past its guard and read the store
ReadTheStore == run.pc = "done" /\ run.reads # <<>>

\* C16 (as claimed): the legacy path, which reads the partner:<id> email sets, is
\* taken exactly when no visit set yielded a member key; once a member key was
\* found no email set is read, even when no member key produced a record.
C16_LegacyPathOnlyWithoutMemberKeys ==
  ReadTheStore =>
    ((\E rd \in Reads : rd.role = "emailSet") <=> run.visitRecordKeys = <<>>)

----------------------------------------------------------------------------
(* C17, C18: the used and visited flags *)

\* a value as the flags compare it: String(value).trim().toLowerCase()
Normalized(v) == ToLowerCase(Trim(ToString(v)))

\* record.used, payload.used, record.status, payload.status, where present
FourCandidates(src) ==
  {v \in {Get(src.record, "used"), Prop(src.payload, "used"),
          Get(src.record, "status"), Prop(src.payload, "status")} : ~IsNullish(v)}

HasVisitedAt(src) ==
  Truthy(Get(src.record, "visitedAt")) \/ Truthy(Prop(src.payload, "visitedAt"))

ClaimedVisited(src) ==
  \/ \E v \in FourCandidates(src) :
       Normalized(v) \in {"true", "visited", "completed", "redeemed", "checkedin",
                          "checked-in", "checked_in", "approved", "yes", "1"}
  \/ HasVisitedAt(src)

\* C17 (as claimed): a visit's visited flag is true exactly when one of
\* record.used, payload.used, record.status, payload.status is, trimmed and
\* lower-cased, in the visited vocabulary, or a non-empty visitedAt exists on
\* the record or the payload.
C17_VisitedFromFourCandidates ==
  \A i \in DOMAIN run.sources :
    Get(run.sources[i].visit, "visited") = Bool(ClaimedVisited(run.sources[i]))

ClaimedUsed(src) ==
  \E v \in FourCandidates(src) :
    Normalized(v) \in {"true", "used", "redeemed", "completed", "yes", "awarded", "1"}

HasStatus(src, statuses) ==
  \E v \in {Get(src.record, "status"), Prop(src.payload, "status")} :
    ~IsNullish(v) /\ Normalized(v) \in statuses

\* C18: on the visit-set path and on the legacy path a visit's used flag is true
\* exactly when one of record.used, payload.used, record.status, payload.status
\* is, trimmed and lower-cased, in {true, used, redeemed, completed, yes,
\* awarded, 1}; a status of completed or redeemed sets both used and visited.
C18_UsedFromFourCandidates ==
  \A i \in DOMAIN run.sources :
    LET src == run.sources[i] IN
    /\ Get(src.visit, "used") = Bool(ClaimedUsed(src))
    /\ HasStatus(src, {"completed", "redeemed"}) =>
         Get(src.visit, "used") = Bool(TRUE) /\ Get(src.visit, "visited") = Bool(TRUE)

\* the legacy path has built a visit, used and visited, from a record whose
\* status is "Completed"
C18_Witness ==
  /\ run.pc = "done"
  /\ \E i \in DOMAIN run.sources :
       LET src == run.sources[i] IN
       /\ src.path = "legacy"
       /\ Get(src.record, "status") = Str("Completed")
       /\ Get(src.visit, "used") = Bool(TRUE) /\ Get(src.visit, "visited") = Bool(TRUE)

----------------------------------------------------------------------------
(* C19, C20: the price of a visit *)

IsPresent(v) == ~IsNullish(v)

\* the first of the four fields that is present, coerced to a number; 0 when
\* none is present or the value is not a number
ClaimedPrice(src) ==
  LET present == SelectSeq(<<Prop(src.payload, "totalPrice"), Prop(src.payload, "price"),
                             Get(src.record, "totalPrice"), Get(src.record, "price")>>,
                           IsPresent)
      number == IF present = <<>> THEN Num(0) ELSE ToNumber(Head(present))
  IN IF number.t = "NaN" THEN Num(0) ELSE number

\* C19 (as claimed): on both paths a visit's totalPrice is the first present of
\* payload.totalPrice, payload.price, record.totalPrice, record.price, coerced
\* to a number, and 0 when none is present or the value is not a number.
C19_PriceFromFourFields ==
  \A i \in DOMAIN run.sources :
    Get(run.sources[i].visit, "totalPrice") = ClaimedPrice(run.sources[i])

\* C20 (as claimed): every visit of every ledger has a totalPrice that is a
\* non-negative number, and so metrics.revenue is non-negative.
C20_PriceNonNegative ==
  Returns =>
    /\ \A v \in LedgerVisits :
         Get(v, "totalPrice").t = "number" /\ Get(v, "totalPrice").n >= 0
    /\ Metrics.revenue.t = "number" /\ Metrics.revenue.n >= 0

----------------------------------------------------------------------------
(* C21: the estimate of a visit *)

\* the first present of payload.estimatedPoints, payload.points and
\* record.estimatedPoints, coerced to a number; 0 when none is present or the
\* value is not a number
ClaimedEstimate(src) ==
  LET present == SelectSeq(<<Prop(src.payload, "estimatedPoints"), Prop(src.payload, "points"),
                             Get(src.record, "estimatedPoints")>>,
                           IsPresent)
      number == IF present = <<>> THEN Num(0) ELSE ToNumber(Head(present))
  IN IF number.t = "NaN" THEN Num(0) ELSE number

\* C21 (as claimed): the estimatedPoints field of every visit is the points
\* anticipated at registration, the first present of payload.estimatedPoints,
\* payload.points, record.estimatedPoints, else 0, whether or not pointsAwarded
\* is set on the visit.
C21_EstimateIndependentOfAward ==
  \A i \in DOMAIN run.sources :
    Get(run.sources[i].visit, "estimatedPoints") = ClaimedEstimate(run.sources[i])

----------------------------------------------------------------------------
(* C22: the count of bonus redemptions *)

\* the ticket-type field of a visit, as the aggregation reads it
TicketTypeOf(visit) == Or(Get(visit, "ticket"), Or(Get(visit, "ticketType"), Str("")))

\* C22 (as claimed): metrics.bonusRedemptions is the number of visits of the
\* ledger whose ticket-type field is exactly the literal BonusReward; a visit
\* whose ticket type differs from it only by letter case is not counted.
C22_BonusRedemptionsCaseSensitive ==
  Returns =>
    Metrics.bonusRedemptions =
      Num(Cardinality({i \in DOMAIN Ledger : TicketTypeOf(Ledger[i]) = Str("BonusReward")}))

----------------------------------------------------------------------------
(* C23: the payload is passed through and never replaces a derived field *)

\* the fields the normalization rules derive for the visit of a source
DerivedOf(src) ==
  CASE src.path = "visits" ->
         VisitFields(src.record, src.payload, src.key, run.partnerId, NormalizedId(run))
    [] src.path = "legacy" ->
         LegacyFields(src.record, src.payload, run.partnerId, NormalizedId(run))
    [] OTHER ->
         LegacyOnlyFields(src.record, src.payload, run.partnerId, NormalizedId(run))

ClaimedDerivedKeys ==
  {"partnerId", "email", "used", "visited", "createdAt", "totalPrice", "estimatedPoints",
   "pointsAwarded"}

\* C23 (as claimed): every payload field other than the derived visit fields
\* is copied verbatim onto the visit, and for a payload that carries a key of
\* its own named partnerId, email, used, visited, createdAt, totalPrice,
\* estimatedPoints or pointsAwarded the visit still holds the derived value.
C23_PayloadNeverReplacesDerived ==
  \A i \in DOMAIN run.sources :
    LET src == run.sources[i]
        carried == OwnProps(src.payload)
        derived == DerivedOf(src)
    IN /\ \A f \in DOMAIN carried \ DOMAIN derived : Get(src.visit, f) = carried[f]
       /\ \A f \in (ClaimedDerivedKeys \cap DOMAIN carried) \cap DOMAIN derived :
            Get(src.visit, f) = derived[f]

----------------------------------------------------------------------------
(* C24: the partnerId of a visit *)

\* C24 (as claimed): every visit of the ledger returned by loadPartnerData(P)
\* has a partnerId equal to the trimmed, lower-cased form of P, whatever
\* partnerId the stored primary records, the merged legacy records and the
\* member keys carry.
C24_VisitPartnerIsNormalizedId ==
  Returns =>
    \A v \in LedgerVisits : Get(v, "partnerId") = Str(NormalizePartnerId(run.partnerId))

----------------------------------------------------------------------------
(* C25, C26, C27: the requests of usePartnerData *)

\* the request settles in this step
Settles(i) == requests[i].stage # "settled" /\ requests'[i].stage = "settled"

Succeeded == {i \in DOMAIN requests : requests[i].outcome = "ok"}

\* the successful requests whose response no reset has dropped since
SucceededSinceReset == {i \in Succeeded : requests[i].resets = hook.resets}

MostRecentlyStarted(started) == CHOOSE i \in started : \A j \in started : j <= i

\* the visits of a response's submissions; none when it is not an array
VisitsOf(submissions) ==
  IF submissions.t = "array" THEN {submissions.a[k] : k \in DOMAIN submissions.a} ELSE {}

\* data is the response of request i: the same partner and revision, and a
\* list of the same visits
HoldsResponseOf(i) ==
  LET response == requests[i].response IN
  /\ hook.data # Null
  /\ hook.data.partnerId = response.partnerId
  /\ hook.data.revision = response.revision
  /\ hook.data.submissions.t = "array"
  /\ VisitsOf(hook.data.submissions) = VisitsOf(response.submissions)
  /\ Len(hook.data.submissions.a) = Cardinality(VisitsOf(response.submissions))

\* every request but the one started last is settled or aborted
EarlierAborted ==
  \A i \in DOMAIN requests : (i < Len(requests) /\ Unsettled(i)) => requests[i].aborted

\* the step in which an aborted request ends changes neither data nor error
AbortedChangesNothing ==
  \A i \in DOMAIN requests :
    (Settles(i) /\ requests'[i].outcome = "aborted") =>
      hook'.data = hook.data /\ hook'.error = hook.error

DataIsLatest ==
  Succeeded # {} => HoldsResponseOf(MostRecentlyStarted(Succeeded))

DataIsLatestSinceReset ==
  IF SucceededSinceReset = {} THEN hook.data = Null
  ELSE HoldsResponseOf(MostRecentlyStarted(SucceededSinceReset))

\* C25 (as claimed): a fetch that starts while an earlier one is pending aborts
\* the earlier one, whose outcome never changes data or error; and after any
\* sequence of mount, refetch, interval tick and dependency change, data holds
\* the response of the most recently started request among those that
\* completed successfully.
C25_DataIsLatestResponse ==
  [][EarlierAborted' /\ AbortedChangesNothing /\ DataIsLatest']_vars

\* C25 (amended): the same, except that data is null while partnerId or token
\* is missing and until a request completes successfully afterwards (the
\* effect at lines 59-64 resets it), and otherwise holds the response, its
\* submissions sorted, of the most recently started request among those that
\* completed successfully since that reset.
C25_DataIsLatestSinceReset ==
  [][EarlierAborted' /\ AbortedChangesNothing /\ DataIsLatestSinceReset']_vars

\* a request was aborted by a later one and has ended, the later one completed
\* successfully, and data is the later one's response
C25_Witness ==
  /\ Len(requests) = 2
  /\ requests[1].outcome = "aborted" /\ requests[1].partnerId = requests[2].partnerId
  /\ requests[2].outcome = "ok"
  /\ requests[2].response.submissions # Undef
  /\ HoldsResponseOf(2)

\* a request that is not a background refresh is in flight: started, not yet
\* settled and not aborted
ForegroundInFlight ==
  \E i \in DOMAIN requests :
    ~requests[i].background /\ Unsettled(i) /\ ~requests[i].aborted

\* the steps in which a background refresh starts or ends leave loading alone
BackgroundKeepsLoading ==
  /\ \A i \in DOMAIN requests :
       (Settles(i) /\ requests[i].background) => hook'.loading = hook.loading
  /\ (Len(requests') > Len(requests) /\ requests'[Len(requests')].background)
       => hook'.loading = hook.loading

\* C26 (as claimed): loading is true whenever a request that is not a
\* background refresh is in flight; a foreground request aborted by a newer
\* foreground request does not set loading to false while the newer one is
\* pending; and background refreshes never change loading.
C26_LoadingWhileForegroundInFlight ==
  [][(ForegroundInFlight' => hook'.loading) /\ BackgroundKeepsLoading]_vars

\* how often, and where first, a call occurs among the calls of a request
Occurrences(calls, name) == Cardinality({k \in DOMAIN calls : calls[k] = name})
FirstOf(calls, name) == CHOOSE k \in DOMAIN calls : calls[k] = name /\ \A l \in 1..(k - 1) : calls[l] # name
LastOf(calls, name) == CHOOSE k \in DOMAIN calls : calls[k] = name /\ \A l \in (k + 1)..Len(calls) : calls[l] # name

\* C27: the step in which a request fails with an error other than an abort
\* sets error and leaves data as it was; when the response was a 401 or 403
\* and an onUnauthorized callback was passed, the callback is called once,
\* before error is set; and the step in which a request completes
\* successfully leaves error null.
C27_FailureSetsErrorKeepsData ==
  [][\A i \in DOMAIN requests :
       Settles(i) =>
         LET after == requests'[i] IN
         /\ after.outcome \in {"failed", "unauthorized"} =>
              /\ hook'.error # Null /\ hook'.error.t = "error"
              /\ hook'.data = hook.data
         /\ (after.outcome = "unauthorized" /\ hook.onUnauthorized) =>
              /\ hook'.unauthorizedCalls = hook.unauthorizedCalls + 1
              /\ Occurrences(after.calls, "onUnauthorized") = 1
              /\ FirstOf(after.calls, "onUnauthorized") < LastOf(after.calls, "setError")
         /\ after.outcome = "ok" => hook'.error = Null]_vars

\* after a request that loaded data, a later request got a 401 or 403: the
\* callback was called once, error is set and data is still the first response
C27_Witness ==
  /\ Len(requests) = 2
  /\ requests[1].outcome = "ok" /\ requests[2].outcome = "unauthorized"
  /\ hook.onUnauthorized /\ hook.unauthorizedCalls = 1
  /\ hook.error = Err("Error", "Unauthorized")
  /\ HoldsResponseOf(1)

----------------------------------------------------------------------------
(* C28: the counts of the metrics *)

\* C28: for every result of loadPartnerData, metrics.count is the length of
\* submissions, used and visited lie between 0 and count, and unused and
\* notVisited are not negative.
C28_CountsWithinLedger ==
  Returns =>
    /\ Metrics.count = Num(Len(Ledger))
    /\ 0 <= Metrics.used.n /\ Metrics.used.n <= Metrics.count.n
    /\ 0 <= Metrics.visited.n /\ Metrics.visited.n <= Metrics.count.n
    /\ Metrics.unused.n >= 0
    /\ Metrics.notVisited.n >= 0

\* a ledger of two visits of one email, both visited and neither used, has been
\* counted
C28_Witness ==
  /\ Returns
  /\ Len(Ledger) = 2
  /\ Get(Ledger[1], "email") = Get(Ledger[2], "email")
  /\ Metrics.count = Num(2) /\ Metrics.visited = Num(2) /\ Metrics.used = Num(0)
  /\ Metrics.unused = Num(2) /\ Metrics.notVisited = Num(0)

----------------------------------------------------------------------------
(* C29: the metrics of the partner dashboard against the server's *)

DashboardFields ==
  {"count", "used", "unused", "visited", "notVisited", "revenue", "points",
   "averageRevenue", "averagePoints"}

\* C29 (as claimed): for every ledger loadPartnerData returns, each of count,
\* used, unused, visited, notVisited, revenue, points, averageRevenue and
\* averagePoints that PartnerDashboard recomputes from the submissions equals
\* the field of that name of the metrics the server computed for the ledger.
C29_DashboardEqualsServerMetrics ==
  Returns => \A f \in DashboardFields : DashboardMetrics(Ledger)[f] = Metrics[f]

----------------------------------------------------------------------------
(* C30: the buckets of BonusPage's derived visit data *)

RECURSIVE SumOfPointsEarned(_)
SumOfPointsEarned(visits) ==
  IF visits = <<>> THEN 0
  ELSE Get(Head(visits), "pointsEarned").n + SumOfPointsEarned(Tail(visits))

RECURSIVE SumOfTotalVisits(_)
SumOfTotalVisits(stats) ==
  IF stats = <<>> THEN 0
  ELSE Head(stats).totalVisits + SumOfTotalVisits(Tail(stats))

\* C30: once BonusPage has rendered, confirmedVisits + pendingVisits is the
\* number of normalized visits, confirmedPoints + pendingPoints is the sum of
\* their pointsEarned, the totalVisits of the partner summaries add up to the
\* number of visits, and the availablePoints it displays is not negative.
C30_VisitsInExactlyOneBucket ==
  bonus # <<>> /\ bonus.stage = "rendered" =>
    LET derived == bonus.derivedVisitData IN
    /\ derived.confirmedVisits + derived.pendingVisits = Len(bonus.visits)
    /\ derived.confirmedPoints.n + derived.pendingPoints.n = SumOfPointsEarned(bonus.visits)
    /\ SumOfTotalVisits(derived.derivedPartnerStats) = Len(bonus.visits)
    /\ bonus.availablePoints.t = "number"
    /\ bonus.availablePoints.n >= 0

\* a render with a confirmed and a pending visit, whose redemptions exceed the
\* confirmed points and whose server balance is not positive
C30_Witness ==
  /\ bonus # <<>>
  /\ bonus.stage = "rendered"
  /\ bonus.derivedVisitData.confirmedVisits > 0
  /\ bonus.derivedVisitData.pendingVisits > 0
  /\ ServerAvailablePoints(bonus.userData).n <= 0
  /\ DerivedRedemptionPoints(bonus.redemptions).n > bonus.derivedVisitData.confirmedPoints.n
  /\ bonus.availablePoints = Num(0)

====
